---- MODULE Spec2Model ----
(***************************************************************************)
(* SafeLink Shield backend (aditi-o/threatscan).                            *)
(*                                                                         *)
(* Part 1: the sliding-window rate limiter and its middleware              *)
(*         (backend/app/middleware/rate_limiter.py).                       *)
(* Part 2: the verdict part of the scan endpoints                          *)
(*         (backend/app/routers/scan.py, backend/app/utils/heuristics.py). *)
(*                                                                         *)
(* Time is counted in whole seconds.  Paths are sequences of one-character *)
(* strings so that Python's `in` on strings is a real substring search.    *)
(* Probabilities and heuristic scores are counted in hundredths.           *)
(***************************************************************************)
EXTENDS Integers, Sequences, FiniteSets, TLC

VARIABLES
    now,           \* time.time(), in seconds
    requests,      \* RateLimiter._requests: client_id -> list of <<ts, endpoint_type>>
    last_cleanup,  \* RateLimiter._last_cleanup
    slot,          \* one dispatch() coroutine per slot: its position and locals
    running,       \* the coroutine that holds the event loop (0: none)
    admitted,      \* history: client_id -> every <<ts, endpoint_type>> ever recorded
    ticks,         \* number of clock advances so far
    load,          \* the workload of this run: slots, request kinds, clock steps
    scan           \* the scan endpoint call under study (part 2)

vars == <<now, requests, last_cleanup, slot, running, admitted, ticks, load, scan>>

None == "None"

(***************************************************************************)
(* Strings as character sequences                                          *)
(***************************************************************************)
\* s[i..j] = pat for some i: Python's `pat in s`
Contains(s, pat) ==
    \E i \in 0..(Len(s) - Len(pat)) :
        \A j \in 1..Len(pat) : s[i + j] = pat[j]

P_scan_      == <<"/", "s", "c", "a", "n", "/">>
P_chat       == <<"/", "c", "h", "a", "t">>
P_community  == <<"/", "c", "o", "m", "m", "u", "n", "i", "t", "y">>
P_auth       == <<"/", "a", "u", "t", "h">>

Path_root        == <<"/">>
Path_health      == <<"/", "h", "e", "a", "l", "t", "h">>
Path_docs        == <<"/", "d", "o", "c", "s">>
Path_redoc       == <<"/", "r", "e", "d", "o", "c">>
Path_openapi     == <<"/", "o", "p", "e", "n", "a", "p", "i", ".", "j", "s", "o", "n">>
Path_scan_url    == P_scan_ \o <<"u", "r", "l">>
Path_community   == P_community \o <<"/", "r", "e", "p", "o", "r", "t">>
Path_auth_login  == P_auth \o <<"/", "l", "o", "g", "i", "n">>

(***************************************************************************)
(* RateLimitConfig and RATE_LIMITS                                         *)
(***************************************************************************)
RateLimitConfig(per_minute, per_hour, burst, window) ==
    [requests_per_minute |-> per_minute, requests_per_hour |-> per_hour,
     burst_limit |-> burst, burst_window |-> window]

EndpointTypes == {"scan", "chat", "community", "auth", "default"}

\* the limits with a burst limit of 6, above the 5 per minute, for the
\* community class
RATE_LIMITSMutantLargeBurst ==
    [ep \in EndpointTypes |->
        CASE ep = "scan"      -> RateLimitConfig(20, 200, 5, 10)
          [] ep = "chat"      -> RateLimitConfig(30, 500, 10, 10)
          [] ep = "community" -> RateLimitConfig(5, 20, 6, 60)
          [] ep = "auth"      -> RateLimitConfig(10, 50, 5, 60)
          [] OTHER            -> RateLimitConfig(60, 1000, 20, 10)]

RATE_LIMITS ==
    [ep \in EndpointTypes |->
        CASE ep = "scan"      -> RateLimitConfig(20, 200, 5, 10)
          [] ep = "chat"      -> RateLimitConfig(30, 500, 10, 10)
          [] ep = "community" -> RateLimitConfig(5, 20, 3, 60)
          [] ep = "auth"      -> RateLimitConfig(10, 50, 5, 60)
          [] OTHER            -> RateLimitConfig(60, 1000, 20, 10)]

cleanup_interval == 300
ONE_MINUTE == 60
ONE_HOUR == 3600
HASH_MODULUS == 10000000
RETRY_AFTER == 60
STATUS_RATE_LIMITED == 429

\* the status codes of the downstream application: 200, or the 400 of a
\* handler's HTTPException
DownstreamStatus == {200, 400}

EXCLUDED_PATHS == {Path_root, Path_health, Path_docs, Path_redoc, Path_openapi}

(***************************************************************************)
(* Requests.  A request has the connecting address (client_host, None when *)
(* request.client is absent), the X-Forwarded-For header already split at  *)
(* "," and stripped (<<>>: header absent or empty), a method and a path.   *)
(***************************************************************************)
Request(host, xff, method, path) ==
    [client_host |-> host, forwarded |-> xff, method |-> method, path |-> path]

ADDR_A == "10.0.0.1"
ADDR_B == "10.0.0.2"

RequestKinds ==
    [k \in 1..7 |->
        CASE k = 1 -> Request(ADDR_A, <<>>, "POST", Path_community)
          [] k = 2 -> Request(ADDR_A, <<ADDR_B, ADDR_A>>, "POST", Path_community)
          [] k = 3 -> Request(ADDR_A, <<>>, "POST", Path_scan_url)
          [] k = 4 -> Request(ADDR_A, <<>>, "OPTIONS", Path_community)
          [] k = 5 -> Request(ADDR_A, <<>>, "GET", Path_health)
          [] k = 6 -> Request(ADDR_B, <<>>, "POST", Path_scan_url)
          [] OTHER -> Request(None, <<>>, "POST", Path_auth_login)]

\* Python's hash() of a str: some integer, fixed for the life of the process
PyHash(ip) ==
    CASE ip = ADDR_A    -> 1934217361
      [] ip = ADDR_B    -> 1226172905
      [] ip = "unknown" -> -1381865193
      [] OTHER          -> 0

\* RateLimiter._get_client_id (str() of the number is left out: it is injective)
get_client_id(req) ==
    LET ip == IF req.forwarded # <<>> THEN req.forwarded[1]
              ELSE IF req.client_host # None THEN req.client_host
              ELSE "unknown"
    IN  PyHash(ip) % HASH_MODULUS

\* RateLimiter._get_endpoint_type
get_endpoint_type(path) ==
    IF Contains(path, P_scan_) THEN "scan"
    ELSE IF Contains(path, P_chat) THEN "chat"
    ELSE IF Contains(path, P_community) THEN "community"
    ELSE IF Contains(path, P_auth) THEN "auth"
    ELSE "default"

(***************************************************************************)
(* The limiter's dictionary (a defaultdict(list))                          *)
(***************************************************************************)
\* self._requests[client_id] read: the list, [] for a missing key
Lookup(reqs, cid) == IF cid \in DOMAIN reqs THEN reqs[cid] ELSE <<>>

\* self._requests[client_id] = value (creates the key)
Store(reqs, cid, value) ==
    [c \in (DOMAIN reqs) \cup {cid} |-> IF c = cid THEN value ELSE reqs[c]]

\* the list comprehension of _cleanup_old_entries for one client
KeepRecentMutantKeepsAll(list, current_time) == list

KeepRecent(list, current_time) ==
    LET one_hour_ago == current_time - ONE_HOUR
        Recent(e) == e[1] > one_hour_ago
    IN  SelectSeq(list, Recent)

\* whether _cleanup_old_entries goes past its early return
SweepDue(current_time, last) == ~(current_time - last < cleanup_interval)

\* a sweep that filters the lists and keeps the keys of the emptied ones
SweepAllMutantKeepsEmpty(reqs, current_time) ==
    [c \in DOMAIN reqs |-> KeepRecent(reqs[c], current_time)]

\* RateLimiter._cleanup_old_entries: the dictionary it leaves
SweepAll(reqs, current_time) ==
    LET kept == {c \in DOMAIN reqs : KeepRecent(reqs[c], current_time) # <<>>}
    IN  [c \in kept |-> KeepRecent(reqs[c], current_time)]

(***************************************************************************)
(* RateLimiter.check_rate_limit, lines 134-162: the decision               *)
(***************************************************************************)
BurstMessage(window) ==
    CASE window = 10 -> "Too many requests. Please wait 10 seconds."
      [] window = 60 -> "Too many requests. Please wait 60 seconds."
      [] OTHER       -> "Too many requests. Please wait."
MinuteMessage == "Rate limit exceeded. Please wait a minute before trying again."
HourMessage == "Hourly rate limit exceeded. Please try again later."

\* relevant_requests (lines 145-148)
RelevantMutantAnyEndpoint(list, endpoint_type, current_time) ==
    LET Rel(e) == e[1] > current_time - ONE_HOUR
    IN  SelectSeq(list, Rel)

Relevant(list, endpoint_type, current_time) ==
    LET Rel(e) == e[2] = endpoint_type /\ e[1] > current_time - ONE_HOUR
    IN  SelectSeq(list, Rel)

\* sum(1 for ts, _ in relevant_requests if ts > since)
CountSinceMutantInclusive(relevant, since) ==
    LET After(e) == e[1] >= since
    IN  Len(SelectSeq(relevant, After))

CountSince(relevant, since) ==
    LET After(e) == e[1] > since
    IN  Len(SelectSeq(relevant, After))

\* lines 150-162: the three checks, in the order of the code
LimitErrorMutantHourFirst(relevant, config, current_time) ==
    IF Len(relevant) >= config.requests_per_hour
    THEN HourMessage
    ELSE IF CountSince(relevant, current_time - ONE_MINUTE) >= config.requests_per_minute
    THEN MinuteMessage
    ELSE IF CountSince(relevant, current_time - config.burst_window) >= config.burst_limit
    THEN BurstMessage(config.burst_window)
    ELSE None

LimitErrorMutantOffByOne(relevant, config, current_time) ==
    IF CountSince(relevant, current_time - config.burst_window) > config.burst_limit
    THEN BurstMessage(config.burst_window)
    ELSE IF CountSince(relevant, current_time - ONE_MINUTE) > config.requests_per_minute
    THEN MinuteMessage
    ELSE IF Len(relevant) > config.requests_per_hour
    THEN HourMessage
    ELSE None

LimitError(relevant, config, current_time) ==
    IF CountSince(relevant, current_time - config.burst_window) >= config.burst_limit
    THEN BurstMessage(config.burst_window)
    ELSE IF CountSince(relevant, current_time - ONE_MINUTE) >= config.requests_per_minute
    THEN MinuteMessage
    ELSE IF Len(relevant) >= config.requests_per_hour
    THEN HourMessage
    ELSE None

\* lines 134-162 for the list of one client: None, or the rejection reason
Decide(list, endpoint_type, current_time) ==
    LimitError(Relevant(list, endpoint_type, current_time),
               RATE_LIMITS[endpoint_type], current_time)

\* the dictionary after lines 134-162: line 144 reads a defaultdict, which
\* creates the key; nothing else is written before line 165
AfterChecksMutantRecordsFirst(reqs, cid, endpoint_type, current_time) ==
    Store(reqs, cid, Append(Lookup(reqs, cid), <<current_time, endpoint_type>>))

AfterChecks(reqs, cid, endpoint_type, current_time) ==
    Store(reqs, cid, Lookup(reqs, cid))

\* line 165
Recorded(reqs, cid, endpoint_type, current_time) ==
    Store(reqs, cid, Append(Lookup(reqs, cid), <<current_time, endpoint_type>>))

(***************************************************************************)
(* The dispatch() coroutines.  A coroutine keeps the event loop from one   *)
(* suspension point to the next; dispatch() awaits only call_next, and     *)
(* check_rate_limit is a plain function.                                   *)
(***************************************************************************)
IdleSlot ==
    [pc |-> "idle", kind |-> 0, current_time |-> -1, error |-> None,
     status |-> 0, message |-> None, retry_after |-> 0, passed |-> 0]

\* whether control reaches the event loop when a coroutine arrives at pc
YieldsMutantPreemptive(pc) == TRUE

Yields(pc) == pc \in {"idle", "call_next", "done"}

InCheck(r) == slot[r].pc \in {"cleanup", "check", "record"}

MayRun(r) == running = r \/ (running = 0 /\ InCheck(r))

Holder(r, pc) == IF Yields(pc) THEN 0 ELSE r

ReqOf(r) == RequestKinds[slot[r].kind]
CidOf(r) == get_client_id(ReqOf(r))
EpOf(r) == get_endpoint_type(ReqOf(r).path)

\* whether dispatch() leaves the limiter out (lines 184, 188)
SkipsLimiter(req) == req.path \in EXCLUDED_PATHS \/ req.method = "OPTIONS"

\* dispatch(), lines 194-205: the answer to a request the limiter refuses
RateLimitedResponseMutantRetryFromReason(error) ==
    [status |-> STATUS_RATE_LIMITED, message |-> error,
     retry_after |-> IF error = MinuteMessage THEN RETRY_AFTER ELSE 10]

RateLimitedResponse(error) ==
    [status |-> STATUS_RATE_LIMITED, message |-> error, retry_after |-> RETRY_AFTER]

\* every recorded request, over all clients
TotalAdmitted == LET RECURSIVE Sum(_)
                     Sum(S) == IF S = {} THEN 0
                               ELSE LET c == CHOOSE x \in S : TRUE
                                    IN  Len(admitted[c]) + Sum(S \ {c})
                 IN  Sum(DOMAIN admitted)

\* dispatch(), lines 183-192: a request arrives and its coroutine starts
Dispatch(r, k) ==
    /\ slot[r].pc = "idle"
    /\ running = 0
    /\ load.capped => TotalAdmitted < load.max_admitted
    /\ LET to == IF SkipsLimiter(RequestKinds[k]) THEN "call_next" ELSE "cleanup"
       IN  /\ slot' = [slot EXCEPT ![r] =
                          [IdleSlot EXCEPT !.pc = to, !.kind = k,
                                           !.passed = IF to = "call_next" THEN 1 ELSE 0]]
           /\ running' = Holder(r, to)
    /\ UNCHANGED <<now, requests, last_cleanup, admitted, ticks, load, scan>>

\* check_rate_limit, line 132: _cleanup_old_entries (lines 106-123)
Cleanup(r) ==
    /\ slot[r].pc = "cleanup"
    /\ MayRun(r)
    /\ IF SweepDue(now, last_cleanup)
       THEN /\ requests' = SweepAll(requests, now)
            /\ last_cleanup' = now
       ELSE UNCHANGED <<requests, last_cleanup>>
    /\ slot' = [slot EXCEPT ![r].pc = "check"]
    /\ running' = Holder(r, "check")
    /\ UNCHANGED <<now, admitted, ticks, load, scan>>

\* check_rate_limit, lines 134-162, and on an error dispatch() lines 193-205
Check(r) ==
    /\ slot[r].pc = "check"
    /\ MayRun(r)
    /\ LET error == Decide(Lookup(requests, CidOf(r)), EpOf(r), now)
       IN  /\ requests' = AfterChecks(requests, CidOf(r), EpOf(r), now)
           /\ IF error # None
              THEN /\ slot' = [slot EXCEPT ![r].pc = "done",
                                           ![r].current_time = now,
                                           ![r].error = error,
                                           ![r].status = RateLimitedResponse(error).status,
                                           ![r].message = RateLimitedResponse(error).message,
                                           ![r].retry_after =
                                               RateLimitedResponse(error).retry_after]
                   /\ running' = Holder(r, "done")
              ELSE /\ slot' = [slot EXCEPT ![r].pc = "record",
                                           ![r].current_time = now]
                   /\ running' = Holder(r, "record")
    /\ UNCHANGED <<now, last_cleanup, admitted, ticks, load, scan>>

\* check_rate_limit, lines 164-167, and dispatch() line 207 up to its await
Record(r) ==
    /\ slot[r].pc = "record"
    /\ MayRun(r)
    /\ requests' = Recorded(requests, CidOf(r), EpOf(r), slot[r].current_time)
    /\ admitted' = Recorded(admitted, CidOf(r), EpOf(r), slot[r].current_time)
    /\ slot' = [slot EXCEPT ![r].pc = "call_next", ![r].passed = @ + 1]
    /\ running' = Holder(r, "call_next")
    /\ UNCHANGED <<now, last_cleanup, ticks, load, scan>>

\* the downstream application answers and dispatch() returns its response
HandlerReturn(r) ==
    /\ slot[r].pc = "call_next"
    /\ running = 0
    /\ \E code \in DownstreamStatus :
           slot' = [slot EXCEPT ![r].pc = "done", ![r].status = code]
    /\ UNCHANGED <<now, requests, last_cleanup, running, admitted, ticks, load, scan>>

\* the response is sent; the slot takes the next request
Release(r) ==
    /\ slot[r].pc = "done"
    /\ running = 0
    /\ slot' = [slot EXCEPT ![r] = IdleSlot]
    /\ UNCHANGED <<now, requests, last_cleanup, running, admitted, ticks, load, scan>>

\* the clock advances by d seconds while no coroutine holds the event loop
Tick(d) ==
    /\ running = 0
    /\ ticks < load.max_ticks
    /\ now' = now + d
    /\ ticks' = ticks + 1
    /\ UNCHANGED <<requests, last_cleanup, slot, running, admitted, load, scan>>

LimiterNext ==
    \/ \E r \in load.slots, k \in load.kinds : Dispatch(r, k)
    \/ \E r \in load.slots : Cleanup(r)
    \/ \E r \in load.slots : Check(r)
    \/ \E r \in load.slots : Record(r)
    \/ \E r \in load.slots : HandlerReturn(r)
    \/ \E r \in load.slots : Release(r)
    \/ \E d \in load.steps : Tick(d)

AllSlots == {1, 2}

NoScan == [pc |-> "none"]

\* a workload: the coroutine slots in use, the request kinds that arrive, the
\* clock steps, the number of clock steps, and (when capped) the number of
\* recorded requests after which no further request arrives
Workload(slots, kinds, steps, max_ticks, capped, max_admitted) ==
    [slots |-> slots, kinds |-> kinds, steps |-> steps, max_ticks |-> max_ticks,
     capped |-> capped, max_admitted |-> max_admitted]

LimiterInit(workloads) ==
    /\ now = 0
    /\ requests = <<>>
    /\ last_cleanup = 0
    /\ slot = [r \in AllSlots |-> IdleSlot]
    /\ running = 0
    /\ admitted = <<>>
    /\ ticks = 0
    /\ load \in workloads
    /\ scan = NoScan

(***************************************************************************)
(* Spec: two concurrent dispatch() coroutines with community requests from *)
(* one address, with and without X-Forwarded-For; and one coroutine at a   *)
(* time with requests of several classes, addresses, OPTIONS and /health.  *)
(***************************************************************************)
MaxTicksConcurrent == 1
MaxAdmittedConcurrent == 4
MaxTicksMixed == 1
MaxAdmittedMixed == 5

ConcurrentLoad ==
    Workload({1, 2}, {1, 2}, {60}, MaxTicksConcurrent, TRUE, MaxAdmittedConcurrent)
MixedLoad == Workload({1}, {1, 3, 4, 5, 6, 7}, {60}, MaxTicksMixed, TRUE, MaxAdmittedMixed)

Init == LimiterInit({ConcurrentLoad, MixedLoad})
Next == LimiterNext
Spec == Init /\ [][Next]_vars

(***************************************************************************)
(* SpecWindows: long enough for each of the three limits to be reached     *)
(***************************************************************************)
MaxTicksBurst == 3
MaxTicksMinute == 4
MaxTicksHour == 6

BurstLoad == Workload({1, 2}, {3}, {5}, MaxTicksBurst, FALSE, 0)
MinuteLoad == Workload({1}, {3}, {10}, MaxTicksMinute, FALSE, 0)
HourLoad == Workload({1}, {1}, {60}, MaxTicksHour, FALSE, 0)

InitWindows == LimiterInit({BurstLoad, MinuteLoad, HourLoad})
SpecWindows == InitWindows /\ [][Next]_vars

(***************************************************************************)
(* SpecSweep: more than an hour passes                                     *)
(***************************************************************************)
MaxTicksSweep == 4
MaxAdmittedSweep == 4

SweepLoad == Workload({1}, {1, 2}, {60, 3500}, MaxTicksSweep, TRUE, MaxAdmittedSweep)

InitSweep == LimiterInit({SweepLoad})
SpecSweep == InitSweep /\ [][Next]_vars

(***************************************************************************)
(* SpecClasses: the two classes with a burst window of 60 seconds, long    *)
(* enough for their burst and hourly limits to be reached                  *)
(***************************************************************************)
MaxTicksCommunity == 6
MaxTicksCommunityShort == 4
MaxTicksAuth == 3

CommunityLoad == Workload({1}, {1}, {60}, MaxTicksCommunity, FALSE, 0)
CommunityShortLoad == Workload({1, 2}, {1}, {20}, MaxTicksCommunityShort, FALSE, 0)
AuthLoad == Workload({1}, {7}, {30}, MaxTicksAuth, FALSE, 0)

InitClasses == LimiterInit({CommunityLoad, CommunityShortLoad, AuthLoad})
SpecClasses == InitClasses /\ [][Next]_vars

(***************************************************************************)
(* Text.  A Python str is a sequence of one-character strings, so that     *)
(* searching, slicing and substituting are computed on characters.         *)
(***************************************************************************)
Digits == {"0", "1", "2", "3", "4", "5", "6", "7", "8", "9"}
LowerLetters ==
    {"a", "b", "c", "d", "e", "f", "g", "h", "i", "j", "k", "l", "m",
     "n", "o", "p", "q", "r", "s", "t", "u", "v", "w", "x", "y", "z"}
UpperLetters ==
    {"A", "B", "C", "D", "E", "F", "G", "H", "I", "J", "K", "L", "M",
     "N", "O", "P", "Q", "R", "S", "T", "U", "V", "W", "X", "Y", "Z"}
Letters == LowerLetters \cup UpperLetters
\* \s, of which the texts use the blank only
Whitespace == {" "}
\* \w
WordChars == Letters \cup Digits \cup {"_"}

\* str.lower() of one character
LowerChar(c) ==
    CASE c = "A" -> "a" [] c = "B" -> "b" [] c = "C" -> "c" [] c = "D" -> "d"
      [] c = "E" -> "e" [] c = "F" -> "f" [] c = "G" -> "g" [] c = "H" -> "h"
      [] c = "I" -> "i" [] c = "J" -> "j" [] c = "K" -> "k" [] c = "L" -> "l"
      [] c = "M" -> "m" [] c = "N" -> "n" [] c = "O" -> "o" [] c = "P" -> "p"
      [] c = "Q" -> "q" [] c = "R" -> "r" [] c = "S" -> "s" [] c = "T" -> "t"
      [] c = "U" -> "u" [] c = "V" -> "v" [] c = "W" -> "w" [] c = "X" -> "x"
      [] c = "Y" -> "y" [] c = "Z" -> "z" [] OTHER -> c

\* str.lower()
Lower(s) == [i \in 1..Len(s) |-> LowerChar(s[i])]

\* s[i:i+len(lit)] == lit, i counted from 1
LitAt(s, i, lit) ==
    /\ i >= 1 /\ i + Len(lit) - 1 <= Len(s)
    /\ \A j \in 1..Len(lit) : s[i + j - 1] = lit[j]

\* the same, ignoring case (re.IGNORECASE); lit is in lower case
LitAtIgnoreCase(s, i, lit) ==
    /\ i >= 1 /\ i + Len(lit) - 1 <= Len(s)
    /\ \A j \in 1..Len(lit) : LowerChar(s[i + j - 1]) = lit[j]

\* str.startswith
StartsWith(s, lit) == LitAt(s, 1, lit)

\* how many characters of the class follow one another from position i on
RunLen(s, i, class) ==
    LET stops == {j \in i..Len(s) : s[j] \notin class}
    IN  IF i > Len(s) \/ s[i] \notin class THEN 0
        ELSE IF stops = {} THEN Len(s) - i + 1
        ELSE (CHOOSE j \in stops : \A k \in stops : j <= k) - i

\* all of s[i..i+n-1] exist and are of the class
AllIn(s, i, n, class) ==
    /\ i >= 1 /\ i + n - 1 <= Len(s)
    /\ \A j \in i..(i + n - 1) : s[j] \in class

\* position i holds a word character
WordAt(s, i) == i \in 1..Len(s) /\ s[i] \in WordChars

\* \b before position i: exactly one of s[i-1], s[i] is a word character
Boundary(s, i) == WordAt(s, i - 1) # WordAt(s, i)

\* str.strip() of blanks
Strip(s) ==
    LET keep == {i \in 1..Len(s) : s[i] \notin Whitespace}
    IN  IF keep = {} THEN <<>>
        ELSE SubSeq(s, CHOOSE i \in keep : \A k \in keep : i <= k,
                       CHOOSE i \in keep : \A k \in keep : i >= k)

\* s[:n]
Prefix(s, n) == SubSeq(s, 1, IF Len(s) < n THEN Len(s) ELSE n)

(***************************************************************************)
(* utils/sanitizers.py: redact_pii.  Each pattern is a function from a     *)
(* text and a position to the last position of the match that re finds     *)
(* starting there (the greedy one, after backtracking), or 0.              *)
(***************************************************************************)
PhoneClass == Digits \cup Whitespace \cup {"-", "(", ")"}
EmailLocalClass == Letters \cup Digits \cup {".", "_", "%", "+", "-"}
EmailDomainClass == Letters \cup Digits \cup {".", "-"}
UpiLocalClass == Letters \cup Digits \cup {".", "_", "-"}

\* \+?[\d\s\-\(\)]{10,15}
PhoneEnd(s, i) ==
    LET first == IF s[i] = "+" THEN i + 1 ELSE i
        n == RunLen(s, first, PhoneClass)
    IN  IF n >= 10 THEN first + (IF n > 15 THEN 15 ELSE n) - 1 ELSE 0

\* [a-zA-Z0-9._%+-]+@[a-zA-Z0-9.-]+\.[a-zA-Z]{2,}
EmailEnd(s, i) ==
    LET n == RunLen(s, i, EmailLocalClass)
        at == i + n
        d == at + 1
        m == RunLen(s, d, EmailDomainClass)
        dots == {k \in (d + 1)..(d + m - 1) :
                     s[k] = "." /\ RunLen(s, k + 1, Letters) >= 2}
        last == CHOOSE k \in dots : \A j \in dots : k >= j
    IN  IF n >= 1 /\ at <= Len(s) /\ s[at] = "@" /\ dots # {}
        THEN last + RunLen(s, last + 1, Letters)
        ELSE 0

\* the position after an optional separator of the class at position i
SkipOne(s, i, class) == IF i <= Len(s) /\ s[i] \in class THEN i + 1 ELSE i

\* \b(?:\d{4}[\s\-]?){3}\d{4}\b
CardEnd(s, i) ==
    LET sep == Whitespace \cup {"-"}
        p2 == SkipOne(s, i + 4, sep)
        p3 == SkipOne(s, p2 + 4, sep)
        p4 == SkipOne(s, p3 + 4, sep)
    IN  IF /\ Boundary(s, i)
           /\ AllIn(s, i, 4, Digits) /\ AllIn(s, p2, 4, Digits)
           /\ AllIn(s, p3, 4, Digits) /\ AllIn(s, p4, 4, Digits)
           /\ Boundary(s, p4 + 4)
        THEN p4 + 3 ELSE 0

\* [:\s]*\d{lo,hi}\b from position i: the digits end at a word boundary
DigitsAfterEnd(s, i, skip, lo, hi) ==
    LET p == i + RunLen(s, i, skip)
        n == RunLen(s, p, Digits)
    IN  IF n >= lo /\ n <= hi /\ ~WordAt(s, p + n) THEN p + n - 1 ELSE 0

\* (?:cvv|cvc)[:\s]*\d{3,4}\b
CvvEnd(s, i) ==
    IF LitAtIgnoreCase(s, i, <<"c", "v", "v">>) \/ LitAtIgnoreCase(s, i, <<"c", "v", "c">>)
    THEN DigitsAfterEnd(s, i + 3, {":"} \cup Whitespace, 3, 4)
    ELSE 0

\* \b\d{4}\s?\d{4}\s?\d{4}\b
AadhaarEnd(s, i) ==
    LET p2 == SkipOne(s, i + 4, Whitespace)
        p3 == SkipOne(s, p2 + 4, Whitespace)
    IN  IF /\ Boundary(s, i)
           /\ AllIn(s, i, 4, Digits) /\ AllIn(s, p2, 4, Digits)
           /\ AllIn(s, p3, 4, Digits)
           /\ Boundary(s, p3 + 4)
        THEN p3 + 3 ELSE 0

\* \b[A-Z]{5}\d{4}[A-Z]\b
PanEnd(s, i) ==
    IF /\ Boundary(s, i)
       /\ AllIn(s, i, 5, Letters) /\ AllIn(s, i + 5, 4, Digits)
       /\ AllIn(s, i + 9, 1, Letters)
       /\ Boundary(s, i + 10)
    THEN i + 9 ELSE 0

\* (?:otp|code|pin|verify)[:\s]*\d{4,8}\b
OtpEnd(s, i) ==
    LET words == {<<"o", "t", "p">>, <<"c", "o", "d", "e">>, <<"p", "i", "n">>,
                  <<"v", "e", "r", "i", "f", "y">>}
        hit == {w \in words : LitAtIgnoreCase(s, i, w)}
    IN  IF hit = {} THEN 0
        ELSE DigitsAfterEnd(s, i + Len(CHOOSE w \in hit : TRUE),
                            {":"} \cup Whitespace, 4, 8)

\* [a-zA-Z0-9._-]+@[a-zA-Z]+
UpiEnd(s, i) ==
    LET n == RunLen(s, i, UpiLocalClass)
        at == i + n
        m == RunLen(s, at + 1, Letters)
    IN  IF n >= 1 /\ at <= Len(s) /\ s[at] = "@" /\ m >= 1 THEN at + m ELSE 0

\* \b(?:a/?c|account)[:\s#]*\d{9,18}\b: the alternatives in their order
AccountEnd(s, i) ==
    LET skip == {":", "#"} \cup Whitespace
        ac == IF LitAtIgnoreCase(s, i, <<"a", "/", "c">>)
              THEN DigitsAfterEnd(s, i + 3, skip, 9, 18)
              ELSE IF LitAtIgnoreCase(s, i, <<"a", "c">>)
              THEN DigitsAfterEnd(s, i + 2, skip, 9, 18)
              ELSE 0
        account == IF LitAtIgnoreCase(s, i, <<"a", "c", "c", "o", "u", "n", "t">>)
                   THEN DigitsAfterEnd(s, i + 7, skip, 9, 18)
                   ELSE 0
    IN  IF ~Boundary(s, i) THEN 0
        ELSE IF ac > 0 THEN ac ELSE account

\* \b[A-Z]{4}0[A-Z0-9]{6}\b
IfscEnd(s, i) ==
    IF /\ Boundary(s, i)
       /\ AllIn(s, i, 4, Letters) /\ AllIn(s, i + 4, 1, {"0"})
       /\ AllIn(s, i + 5, 6, Letters \cup Digits)
       /\ Boundary(s, i + 11)
    THEN i + 10 ELSE 0

PHONE_REDACTED ==
    <<"[", "P", "H", "O", "N", "E", "_", "R", "E", "D", "A", "C", "T", "E", "D", "]">>
EMAIL_REDACTED ==
    <<"[", "E", "M", "A", "I", "L", "_", "R", "E", "D", "A", "C", "T", "E", "D", "]">>
CARD_REDACTED ==
    <<"[", "C", "A", "R", "D", "_", "R", "E", "D", "A", "C", "T", "E", "D", "]">>
CVV_REDACTED ==
    <<"C", "V", "V", ":", " ", "[", "R", "E", "D", "A", "C", "T", "E", "D", "]">>
AADHAAR_REDACTED ==
    <<"[", "A", "A", "D", "H", "A", "A", "R", "_", "R", "E", "D", "A", "C", "T", "E",
      "D", "]">>
PAN_REDACTED ==
    <<"[", "P", "A", "N", "_", "R", "E", "D", "A", "C", "T", "E", "D", "]">>
OTP_REDACTED ==
    <<"O", "T", "P", ":", " ", "[", "R", "E", "D", "A", "C", "T", "E", "D", "]">>
UPI_REDACTED ==
    <<"[", "U", "P", "I", "_", "R", "E", "D", "A", "C", "T", "E", "D", "]">>
ACCOUNT_REDACTED ==
    <<"A", "c", "c", "o", "u", "n", "t", ":", " ", "[", "R", "E", "D", "A", "C", "T",
      "E", "D", "]">>
IFSC_REDACTED ==
    <<"[", "I", "F", "S", "C", "_", "R", "E", "D", "A", "C", "T", "E", "D", "]">>

\* the patterns list of redact_pii, in its order
PiiPatterns ==
    <<"phone", "email", "card", "cvv", "aadhaar", "pan", "otp", "upi", "account", "ifsc">>

PiiReplacement(pattern) ==
    CASE pattern = "phone"   -> PHONE_REDACTED
      [] pattern = "email"   -> EMAIL_REDACTED
      [] pattern = "card"    -> CARD_REDACTED
      [] pattern = "cvv"     -> CVV_REDACTED
      [] pattern = "aadhaar" -> AADHAAR_REDACTED
      [] pattern = "pan"     -> PAN_REDACTED
      [] pattern = "otp"     -> OTP_REDACTED
      [] pattern = "upi"     -> UPI_REDACTED
      [] pattern = "account" -> ACCOUNT_REDACTED
      [] pattern = "ifsc"    -> IFSC_REDACTED

\* the match of a pattern that starts at position i: its last position, or 0
MatchEnd(pattern, s, i) ==
    CASE pattern = "phone"   -> PhoneEnd(s, i)
      [] pattern = "email"   -> EmailEnd(s, i)
      [] pattern = "card"    -> CardEnd(s, i)
      [] pattern = "cvv"     -> CvvEnd(s, i)
      [] pattern = "aadhaar" -> AadhaarEnd(s, i)
      [] pattern = "pan"     -> PanEnd(s, i)
      [] pattern = "otp"     -> OtpEnd(s, i)
      [] pattern = "upi"     -> UpiEnd(s, i)
      [] pattern = "account" -> AccountEnd(s, i)
      [] pattern = "ifsc"    -> IfscEnd(s, i)

\* the only element of a set of one element; a value that is taken from
\* such a set is computed once, however often it is used afterwards
The(singleton) == CHOOSE x \in singleton : TRUE

\* re.findall / re.sub from position i on: the matches are taken from the
\* left and do not overlap; text is the substituted rest, count the matches
RECURSIVE ReSub(_, _, _)
ReSub(pattern, s, i) ==
    LET starts == {j \in i..Len(s) : MatchEnd(pattern, s, j) > 0}
    IN  IF starts = {} THEN [text |-> SubSeq(s, i, Len(s)), count |-> 0]
        ELSE The({[text |-> SubSeq(s, i, j - 1) \o PiiReplacement(pattern) \o rest.text,
                   count |-> rest.count + 1] :
                      <<j, rest>> \in
                          {<<k, ReSub(pattern, s, MatchEnd(pattern, s, k) + 1)>> :
                               k \in {l \in starts : \A m \in starts : l <= m}}})

\* a turn that counts a pattern once, however many matches it has
RedactStepMutantCountsPatterns(pattern, acc) ==
    The({[text |-> sub.text,
          count |-> acc.count + (IF sub.count > 0 THEN 1 ELSE 0)] :
             sub \in {ReSub(pattern, acc.text, 1)}})

\* one turn of the loop of redact_pii: findall, and sub when there are matches
RedactStep(pattern, acc) ==
    The({[text |-> sub.text, count |-> acc.count + sub.count] :
             sub \in {ReSub(pattern, acc.text, 1)}})

\* the loop of redact_pii over patterns[k..]: result and redaction_count
RECURSIVE RedactFrom(_, _)
RedactFrom(k, acc) ==
    IF k > Len(PiiPatterns) THEN acc
    ELSE The({RedactFrom(k + 1, next) : next \in {RedactStep(PiiPatterns[k], acc)}})

\* redact_pii(text): (redacted text, count of redactions)
redact_pii(text) ==
    The({RedactFrom(1, [text |-> t, count |-> 0]) : t \in {text}})

(***************************************************************************)
(* Part 2: the scan endpoints (routers/scan.py) and the risk score          *)
(* (utils/heuristics.py).  Scores and probabilities are in hundredths.     *)
(***************************************************************************)
\* round() that always goes up to the next integer
PyRoundMutantAlwaysUp(n, d) == n \div d + 1

\* Python's round(n / d) for n >= 0, d > 0: to the nearest, ties to even
PyRound(n, d) ==
    LET q == n \div d
        r == n % d
    IN  IF 2 * r < d THEN q
        ELSE IF 2 * r > d THEN q + 1
        ELSE IF q % 2 = 0 THEN q ELSE q + 1

\* default_weights of compute_composite_score, in hundredths
DefaultWeights == [model |-> 60, heuristic |-> 40]

\* weights=None, the default of the parameter (an empty dict is falsy too)
NoWeights == [k \in {} |-> 0]

\* a fusion that gives the heuristic score the whole weight when the model
\* score is 0
compute_composite_scoreMutantRescaled(model_score, heuristic_score, weights) ==
    LET w == IF DOMAIN weights = {} THEN DefaultWeights ELSE weights
    IN  IF model_score = 0 THEN PyRound(heuristic_score * 100, 100)
        ELSE PyRound(model_score * w.model + heuristic_score * w.heuristic, 100)

\* compute_composite_score: weights = weights or default_weights, then
\* round((m * w.model + h * w.heuristic) * 100)
compute_composite_score(model_score, heuristic_score, weights) ==
    LET w == IF DOMAIN weights = {} THEN DefaultWeights ELSE weights
    IN  PyRound(model_score * w.model + heuristic_score * w.heuristic, 100)

LABEL_HIGH == "High Risk - Likely Malicious"
LABEL_MEDIUM == "Medium Risk - Suspicious"
LABEL_LOW == "Low Risk - Appears Safe"

\* scan_url, lines 128-133
UrlLabel(risk_score) ==
    IF risk_score >= 70 THEN LABEL_HIGH
    ELSE IF risk_score >= 40 THEN LABEL_MEDIUM
    ELSE LABEL_LOW

\* is_safe = risk_score < 30 (lines 127, 217, 313, 413)
IsSafe(risk_score) == risk_score < 30

\* what hf_client returns: None, {"loading": True}, or a classification
NoResult == [shape |-> "none"]
Loading == [shape |-> "loading"]
UrlResult(shape, items) == [shape |-> shape, items |-> items]
ZeroShot(labels, scores) == [shape |-> "zero_shot", labels |-> labels, scores |-> scores]
Item(label, score) == [label |-> label, score |-> score]

\* scan_url, lines 109-121: the score of the first item labelled "malicious"
UrlModelProb(ml_result) ==
    IF ml_result.shape \in {"list", "nested"}
    THEN LET hits == {i \in 1..Len(ml_result.items) :
                          ml_result.items[i].label = "malicious"}
         IN  IF hits = {} THEN 0
             ELSE ml_result.items[CHOOSE i \in hits : \A j \in hits : i <= j].score
    ELSE 0

SAFE_LABEL == "safe legitimate message"
SCAM_LABELS == <<"digital arrest scam", "UPI payment scam", "refund scam",
                 "job offer scam", "romance scam", "lottery or prize scam",
                 "tech support scam", SAFE_LABEL>>

\* "safe" in label.lower()
HasSafe(label) == label = SAFE_LABEL

\* str.title()
Title(label) ==
    CASE label = "digital arrest scam"   -> "Digital Arrest Scam"
      [] label = "UPI payment scam"      -> "Upi Payment Scam"
      [] label = "refund scam"           -> "Refund Scam"
      [] label = "job offer scam"        -> "Job Offer Scam"
      [] label = "romance scam"          -> "Romance Scam"
      [] label = "lottery or prize scam" -> "Lottery Or Prize Scam"
      [] label = "tech support scam"     -> "Tech Support Scam"
      [] label = SAFE_LABEL              -> "Safe Legitimate Message"
      [] OTHER                           -> label

\* scores.index(max(scores))
MaxIdx(scores) ==
    CHOOSE i \in 1..Len(scores) :
        /\ \A j \in 1..Len(scores) : scores[j] <= scores[i]
        /\ \A j \in 1..(i - 1) : scores[j] < scores[i]

\* a classifier that is taken to say "half" whatever it answered
TextModelMutantNeutralHalf(ml_result) == [model_prob |-> 50, label |-> "Unknown"]

\* scan_text lines 195-211 (and 296-309, 396-409): model_prob and label
TextModel(ml_result) ==
    IF ml_result.shape = "zero_shot"
    THEN LET max_idx == MaxIdx(ml_result.scores)
             top == ml_result.labels[max_idx]
         IN  IF HasSafe(top)
             THEN [model_prob |-> 100 - ml_result.scores[max_idx],
                   label |-> IF Len(ml_result.labels) > 1
                             THEN ml_result.labels[2] ELSE "Unknown"]
             ELSE [model_prob |-> ml_result.scores[max_idx], label |-> top]
    ELSE [model_prob |-> 0, label |-> "Unknown"]

\* the fields of ScanResponse that the endpoints compute from their input
ScanResponse(input_type, input_text, risk_score, label, is_safe) ==
    [status |-> 200, input_type |-> input_type, input_text |-> input_text,
     risk_score |-> risk_score, label |-> label, is_safe |-> is_safe]

\* raise HTTPException(status_code, detail)
HTTPException(status_code, detail) == [status |-> status_code, detail |-> detail]

\* create_scan(db, input_type=..., input_text=...) and its failure, which
\* the endpoints catch and only print
StoredScan(input_type, input_text) ==
    [saved |-> TRUE, input_type |-> input_type, input_text |-> input_text]
NotStored == [saved |-> FALSE]

HTTP_PREFIX ==
    <<"h", "t", "t", "p", ":", "/", "/">>
HTTPS_PREFIX ==
    <<"h", "t", "t", "p", "s", ":", "/", "/">>

\* scan_url, lines 102-145, for the heuristic score and the classifier's answer
UrlScanResult(url, heuristic_score, ml_result) ==
    LET risk_score == compute_composite_score(UrlModelProb(ml_result), heuristic_score,
                                              NoWeights)
    IN  ScanResponse("url", url, risk_score, UrlLabel(risk_score), IsSafe(risk_score))

\* scan_text lines 188-236, scan_screenshot lines 289-332, scan_audio lines 389-432
TextScanResult(input_type, input_text, heuristic_score, ml_result) ==
    LET m == TextModel(ml_result)
        risk_score == compute_composite_score(m.model_prob, heuristic_score, NoWeights)
    IN  ScanResponse(input_type, input_text, risk_score, Title(m.label),
                     IsSafe(risk_score))

\* scan_url: what it returns and what it hands to create_scan
ScanUrlOutcome(content, heuristic_score, ml_result, db_ok) ==
    LET stripped == Strip(content)
        url == IF StartsWith(stripped, HTTP_PREFIX) \/ StartsWith(stripped, HTTPS_PREFIX)
               THEN stripped ELSE HTTPS_PREFIX \o stripped
    IN  IF stripped = <<>>
        THEN [result |-> HTTPException(400, "URL is required"), stored |-> NotStored]
        ELSE [result |-> UrlScanResult(url, heuristic_score, ml_result),
              stored |-> IF db_ok THEN StoredScan("url", url) ELSE NotStored]

\* scan_text
ScanTextOutcome(content, heuristic_score, ml_result, db_ok) ==
    LET text == Strip(content)
        redacted_text == redact_pii(text).text
    IN  IF text = <<>>
        THEN [result |-> HTTPException(400, "Text content is required"),
              stored |-> NotStored]
        ELSE IF Len(text) < 10
        THEN [result |-> HTTPException(400, "Text too short for analysis"),
              stored |-> NotStored]
        ELSE [result |-> TextScanResult("text", redacted_text, heuristic_score, ml_result),
              stored |-> IF db_ok THEN StoredScan("text", redacted_text) ELSE NotStored]

\* scan_screenshot from the OCR's text on, scan_audio from the transcript on
ScanExtractedOutcome(input_type, extracted_text, heuristic_score, ml_result, db_ok) ==
    LET redacted_text == redact_pii(extracted_text).text
    IN  IF extracted_text = <<>>
        THEN [result |-> HTTPException(422, "Could not extract text"),
              stored |-> NotStored]
        ELSE [result |-> TextScanResult(input_type, Prefix(redacted_text, 500),
                                        heuristic_score, ml_result),
              stored |-> IF db_ok
                         THEN StoredScan(input_type, Prefix(redacted_text, 1000))
                         ELSE NotStored]

\* a call of a scan endpoint: the submitted content (for a screenshot the
\* text the OCR extracted, for audio the transcript), what the analyzer and
\* the classifier gave, and whether the database takes the record
ScanCall(kind, content, heuristic_score, ml_result, db_ok) ==
    [pc |-> "called", kind |-> kind, content |-> content,
     heuristic_score |-> heuristic_score, ml_result |-> ml_result, db_ok |-> db_ok]

\* the call with what the endpoint returned and stored
ScanReturn(call, outcome) ==
    [pc |-> "returned", kind |-> call.kind, content |-> call.content,
     heuristic_score |-> call.heuristic_score, ml_result |-> call.ml_result,
     db_ok |-> call.db_ok, result |-> outcome.result, stored |-> outcome.stored]

LimiterVars == <<now, requests, last_cleanup, slot, running, admitted, ticks, load>>

ScanUrl ==
    /\ scan.pc = "called" /\ scan.kind = "url"
    /\ scan' = ScanReturn(scan, ScanUrlOutcome(scan.content, scan.heuristic_score,
                                               scan.ml_result, scan.db_ok))
    /\ UNCHANGED LimiterVars

ScanText ==
    /\ scan.pc = "called" /\ scan.kind = "text"
    /\ scan' = ScanReturn(scan, ScanTextOutcome(scan.content, scan.heuristic_score,
                                                scan.ml_result, scan.db_ok))
    /\ UNCHANGED LimiterVars

ScanTextLike(kind) ==
    /\ scan.pc = "called" /\ scan.kind = kind
    /\ scan' = ScanReturn(scan, ScanExtractedOutcome(kind, scan.content,
                                                     scan.heuristic_score,
                                                     scan.ml_result, scan.db_ok))
    /\ UNCHANGED LimiterVars

ScanScreenshot == ScanTextLike("screenshot")
ScanAudio == ScanTextLike("audio")

(***************************************************************************)
(* SpecScan: one call of a scan endpoint: for every heuristic score and    *)
(* classifier answer of a grid with a plain content, and for every content *)
(* of a list with a few scores and answers                                 *)
(***************************************************************************)
ScoreStep == 5
Hundredths == {ScoreStep * i : i \in 0..(100 \div ScoreStep)}

UrlAnswers ==
    {NoResult, Loading}
    \cup {UrlResult(shape, <<Item("benign", 100 - p), Item("malicious", p)>>) :
              shape \in {"list", "nested"}, p \in Hundredths}
    \cup {UrlResult("list", <<Item("benign", p)>>) : p \in {0, 100}}

TextAnswers ==
    {NoResult, Loading}
    \cup {ZeroShot(<<"UPI payment scam", SAFE_LABEL>>, <<p, 100 - p>>) : p \in Hundredths}
    \cup {ZeroShot(<<SAFE_LABEL, "job offer scam">>, <<p, 100 - p>>) : p \in Hundredths}
    \cup {ZeroShot(<<SAFE_LABEL>>, <<p>>) : p \in {0, 100}}
    \cup {UrlResult("list", <<Item("UPI payment scam", 100)>>)}

\* https://example.com/login
Url_plain ==
    <<"h", "t", "t", "p", "s", ":", "/", "/", "e", "x", "a", "m", "p", "l",
      "e", ".", "c", "o", "m", "/", "l", "o", "g", "i", "n">>
\* https://pay.example.com/?to=alice@example.com
Url_with_email ==
    <<"h", "t", "t", "p", "s", ":", "/", "/", "p", "a", "y", ".", "e", "x",
      "a", "m", "p", "l", "e", ".", "c", "o", "m", "/", "?", "t", "o", "=",
      "a", "l", "i", "c", "e", "@", "e", "x", "a", "m", "p", "l", "e", ".",
      "c", "o", "m">>
\* example.com/u/9876543210, without a scheme and with blanks around it
Url_no_scheme ==
    <<" ", "e", "x", "a", "m", "p", "l", "e", ".", "c", "o", "m", "/", "u",
      "/", "9", "8", "7", "6", "5", "4", "3", "2", "1", "0", " ">>
Text_blank ==
    <<" ", " ">>
\* hello world
Text_clean ==
    <<"h", "e", "l", "l", "o", " ", "w", "o", "r", "l", "d">>
\* Call 9876543210 or mail bob@example.com
Text_with_pii ==
    <<"C", "a", "l", "l", " ", "9", "8", "7", "6", "5", "4", "3", "2", "1",
      "0", " ", "o", "r", " ", "m", "a", "i", "l", " ", "b", "o", "b", "@",
      "e", "x", "a", "m", "p", "l", "e", ".", "c", "o", "m">>
\* otp 4821
Text_short ==
    <<"o", "t", "p", " ", "4", "8", "2", "1">>

UrlContents == {Url_plain, Url_with_email, Url_no_scheme, Text_blank}
TextContents == {Text_clean, Text_with_pii, Text_short, Text_blank, <<>>}

IdleLoad == Workload({}, {}, {}, 0, FALSE, 0)

InitScan ==
    /\ now = 0
    /\ requests = <<>>
    /\ last_cleanup = 0
    /\ slot = [r \in AllSlots |-> IdleSlot]
    /\ running = 0
    /\ admitted = <<>>
    /\ ticks = 0
    /\ load = IdleLoad
    /\ \/ \E h \in Hundredths, a \in UrlAnswers :
              scan = ScanCall("url", Url_plain, h, a, TRUE)
       \/ \E k \in {"text", "screenshot", "audio"}, h \in Hundredths, a \in TextAnswers :
              scan = ScanCall(k, Text_clean, h, a, TRUE)
       \/ \E c \in UrlContents, h \in {0, 50}, db_ok \in BOOLEAN,
             a \in {NoResult, UrlResult("list", <<Item("malicious", 90)>>)} :
              scan = ScanCall("url", c, h, a, db_ok)
       \/ \E k \in {"text", "screenshot", "audio"}, c \in TextContents, h \in {0, 50},
             db_ok \in BOOLEAN,
             a \in {NoResult, ZeroShot(<<"refund scam", SAFE_LABEL>>, <<90, 10>>)} :
              scan = ScanCall(k, c, h, a, db_ok)

NextScan == ScanUrl \/ ScanText \/ ScanScreenshot \/ ScanAudio

SpecScan == InitScan /\ [][NextScan]_vars

(***************************************************************************)
(* SpecFuse: one call of compute_composite_score, for every pair of scores *)
(* of a grid and a few weight configurations.  The grid and the weights    *)
(* are chosen so that no sum falls exactly between two integers: there the *)
(* floating-point product of the code and the exact one may round apart.   *)
(***************************************************************************)
FuseStep == 2
FuseGrid == {FuseStep * i : i \in 0..(100 \div FuseStep)}

\* the weights argument: absent, the default ones spelled out, and
\* configurations that do not sum to 1.0
WeightConfigs ==
    {NoWeights,
     [model |-> 60, heuristic |-> 40],
     [model |-> 100, heuristic |-> 0],
     [model |-> 90, heuristic |-> 90],
     [model |-> 30, heuristic |-> 30]}

FuseCall(model_score, heuristic_score, weights) ==
    [pc |-> "called", kind |-> "fuse", model_score |-> model_score,
     heuristic_score |-> heuristic_score, weights |-> weights]

\* compute_composite_score is called and returns
Fuse ==
    /\ scan.pc = "called" /\ scan.kind = "fuse"
    /\ scan' = [pc |-> "returned", kind |-> scan.kind,
                model_score |-> scan.model_score,
                heuristic_score |-> scan.heuristic_score, weights |-> scan.weights,
                result |-> compute_composite_score(scan.model_score,
                                                   scan.heuristic_score, scan.weights)]
    /\ UNCHANGED LimiterVars

\* the rate limiter at rest, with no traffic
LimiterAtRest ==
    /\ now = 0
    /\ requests = <<>>
    /\ last_cleanup = 0
    /\ slot = [r \in AllSlots |-> IdleSlot]
    /\ running = 0
    /\ admitted = <<>>
    /\ ticks = 0
    /\ load = IdleLoad

InitFuse ==
    /\ LimiterAtRest
    /\ \E m \in FuseGrid, h \in FuseGrid, w \in WeightConfigs : scan = FuseCall(m, h, w)

NextFuse == Fuse

SpecFuse == InitFuse /\ [][NextFuse]_vars

(***************************************************************************)
(* Part 3: utils/threat_explainer.py.  A URL is a text; urlparse is        *)
(* computed on its characters.  The URLs have no ";", blank or control     *)
(* character, and a "[" only without its "]".                              *)
(***************************************************************************)
\* the least member of a non-empty set of positions
Least(positions) == CHOOSE i \in positions : \A k \in positions : i <= k

\* str.find: the first position from `from` on that holds one of chars, or 0
FindAny(s, from, chars) ==
    LET found == {i \in from..Len(s) : s[i] \in chars}
    IN  IF found = {} THEN 0 ELSE Least(found)

\* str.count of one character
Count(s, c) == Cardinality({i \in 1..Len(s) : s[i] = c})

\* str.split(sep) for a separator of one character
Split(s, sep) ==
    LET at    == {i \in 1..Len(s) : s[i] = sep}
        nth(k) == IF k = 0 THEN 0
                  ELSE IF k > Cardinality(at) THEN Len(s) + 1
                  ELSE CHOOSE i \in at : Cardinality({j \in at : j <= i}) = k
    IN  [k \in 1..(Cardinality(at) + 1) |-> SubSeq(s, nth(k - 1) + 1, nth(k) - 1)]

\* sep.join(parts)
RECURSIVE Join(_, _)
Join(parts, sep) ==
    IF Len(parts) = 0 THEN <<>>
    ELSE IF Len(parts) = 1 THEN parts[1]
    ELSE parts[1] \o sep \o Join(Tail(parts), sep)

\* parts[-n:]
LastParts(parts, n) == SubSeq(parts, Len(parts) - n + 1, Len(parts))

\* int(digits)
RECURSIVE ToInt(_)
ToInt(digits) ==
    IF Len(digits) = 0 THEN 0
    ELSE 10 * ToInt(SubSeq(digits, 1, Len(digits) - 1))
         + (CHOOSE d \in 0..9 : ToString(d) = digits[Len(digits)])

\* str(n) for n >= 0
RECURSIVE ToStr(_)
ToStr(n) ==
    IF n < 10 THEN <<ToString(n)>>
    ELSE ToStr(n \div 10) \o <<ToString(n % 10)>>

\* urllib.parse: the characters of a scheme
SchemeChars == Letters \cup Digits \cup {"+", "-", "."}

\* urllib.parse.urlsplit: scheme, netloc and path of a URL
urlparse(url) ==
    LET colon     == FindAny(url, 1, {":"})
        hasScheme == /\ colon > 1
                     /\ url[1] \in Letters
                     /\ \A i \in 1..(colon - 1) : url[i] \in SchemeChars
        scheme    == IF hasScheme THEN Lower(SubSeq(url, 1, colon - 1)) ELSE <<>>
        rest      == IF hasScheme THEN SubSeq(url, colon + 1, Len(url)) ELSE url
        hasNetloc == LitAt(rest, 1, <<"/", "/">>)
        delim     == FindAny(rest, 3, {"/", "?", "#"})
        netlocEnd == IF delim = 0 THEN Len(rest) ELSE delim - 1
        netloc    == IF hasNetloc THEN SubSeq(rest, 3, netlocEnd) ELSE <<>>
        after     == IF hasNetloc THEN SubSeq(rest, netlocEnd + 1, Len(rest)) ELSE rest
        cut       == FindAny(after, 1, {"?", "#"})
        path      == IF cut = 0 THEN after ELSE SubSeq(after, 1, cut - 1)
    IN  [scheme |-> scheme, netloc |-> netloc, path |-> path]

\* urlsplit raises ValueError("Invalid IPv6 URL"): the netloc has one of
\* "[" and "]" without the other
UrlparseRaises(url) ==
    (\E i \in 1..Len(urlparse(url).netloc) : urlparse(url).netloc[i] = "[")
        # (\E i \in 1..Len(urlparse(url).netloc) : urlparse(url).netloc[i] = "]")

\* netloc.rpartition("@")[2]
HostInfo(netloc) ==
    LET ats == {i \in 1..Len(netloc) : netloc[i] = "@"}
    IN  IF ats = {} THEN netloc
        ELSE SubSeq(netloc, (CHOOSE i \in ats : \A k \in ats : i >= k) + 1,
                    Len(netloc))

\* SplitResult.hostname, "" for None
Hostname(parsed) ==
    LET hostinfo == HostInfo(parsed.netloc)
        colon    == FindAny(hostinfo, 1, {":"})
    IN  Lower(IF colon = 0 THEN hostinfo ELSE SubSeq(hostinfo, 1, colon - 1))

\* the text after the first ":" of the host part
PortText(parsed) ==
    LET hostinfo == HostInfo(parsed.netloc)
        colon    == FindAny(hostinfo, 1, {":"})
    IN  IF colon = 0 THEN <<>> ELSE SubSeq(hostinfo, colon + 1, Len(hostinfo))

MaxPort == 65535

\* SplitResult.port raises ValueError
PortRaises(parsed) ==
    LET port == PortText(parsed)
    IN  IF Len(port) = 0 THEN FALSE
        ELSE IF \E i \in 1..Len(port) : port[i] \notin Digits THEN TRUE
        ELSE ToInt(port) > MaxPort

\* SplitResult.port, 0 for None
Port(parsed) ==
    LET port == PortText(parsed)
    IN  IF Len(port) = 0 THEN 0 ELSE ToInt(port)

\* ^(?:\d{1,3}\.){3}\d{1,3}$
IsIp(hostname) ==
    LET parts == Split(hostname, ".")
    IN  /\ Len(parts) = 4
        /\ \A k \in 1..4 :
              /\ Len(parts[k]) \in 1..3
              /\ \A i \in 1..Len(parts[k]) : parts[k][i] \in Digits

\* KNOWN_BRANDS, in the order of the list
KNOWN_BRANDS ==
    <<<<"g", "o", "o", "g", "l", "e">>,
      <<"f", "a", "c", "e", "b", "o", "o", "k">>,
      <<"a", "m", "a", "z", "o", "n">>,
      <<"a", "p", "p", "l", "e">>,
      <<"m", "i", "c", "r", "o", "s", "o", "f", "t">>,
      <<"p", "a", "y", "p", "a", "l">>,
      <<"n", "e", "t", "f", "l", "i", "x">>,
      <<"i", "n", "s", "t", "a", "g", "r", "a", "m">>,
      <<"t", "w", "i", "t", "t", "e", "r">>,
      <<"l", "i", "n", "k", "e", "d", "i", "n">>,
      <<"w", "h", "a", "t", "s", "a", "p", "p">>,
      <<"y", "o", "u", "t", "u", "b", "e">>,
      <<"g", "m", "a", "i", "l">>,
      <<"y", "a", "h", "o", "o">>,
      <<"o", "u", "t", "l", "o", "o", "k">>,
      <<"d", "r", "o", "p", "b", "o", "x">>,
      <<"a", "d", "o", "b", "e">>,
      <<"s", "p", "o", "t", "i", "f", "y">>,
      <<"u", "b", "e", "r">>,
      <<"a", "i", "r", "b", "n", "b">>,
      <<"e", "b", "a", "y">>,
      <<"w", "a", "l", "m", "a", "r", "t">>,
      <<"t", "a", "r", "g", "e", "t">>,
      <<"c", "o", "s", "t", "c", "o">>,
      <<"c", "h", "a", "s", "e">>,
      <<"w", "e", "l", "l", "s", "f", "a", "r", "g", "o">>,
      <<"b", "a", "n", "k", "o", "f", "a", "m", "e", "r", "i", "c", "a">>,
      <<"c", "i", "t", "i", "b", "a", "n", "k">>,
      <<"a", "m", "e", "x">>,
      <<"v", "i", "s", "a">>,
      <<"m", "a", "s", "t", "e", "r", "c", "a", "r", "d">>,
      <<"p", "a", "y", "t", "m">>,
      <<"p", "h", "o", "n", "e", "p", "e">>,
      <<"g", "p", "a", "y">>,
      <<"s", "b", "i">>,
      <<"h", "d", "f", "c">>,
      <<"i", "c", "i", "c", "i">>,
      <<"a", "x", "i", "s">>,
      <<"f", "l", "i", "p", "k", "a", "r", "t">>,
      <<"m", "y", "n", "t", "r", "a">>,
      <<"s", "w", "i", "g", "g", "y">>,
      <<"z", "o", "m", "a", "t", "o">>>>

\* SUSPICIOUS_TLDS
SUSPICIOUS_TLDS ==
    {<<".", "x", "y", "z">>,
     <<".", "t", "o", "p">>,
     <<".", "w", "o", "r", "k">>,
     <<".", "c", "l", "i", "c", "k">>,
     <<".", "l", "i", "n", "k">>,
     <<".", "t", "k">>,
     <<".", "m", "l">>,
     <<".", "g", "a">>,
     <<".", "c", "f">>,
     <<".", "g", "q">>,
     <<".", "p", "w">>,
     <<".", "c", "c">>,
     <<".", "w", "s">>,
     <<".", "i", "n", "f", "o">>,
     <<".", "b", "i", "z">>,
     <<".", "o", "n", "l", "i", "n", "e">>,
     <<".", "s", "i", "t", "e">>,
     <<".", "c", "l", "u", "b">>}

\* multi_tlds
multi_tlds ==
    {<<"c", "o", ".", "u", "k">>,
     <<"c", "o", ".", "i", "n">>,
     <<"c", "o", "m", ".", "a", "u">>,
     <<"o", "r", "g", ".", "u", "k">>,
     <<"c", "o", ".", "n", "z">>,
     <<"c", "o", "m", ".", "b", "r">>}

\* tld_extensions
tld_extensions ==
    {<<".", "c", "o", "m">>,
     <<".", "n", "e", "t">>,
     <<".", "o", "r", "g">>,
     <<".", "e", "d", "u">>,
     <<".", "g", "o", "v">>,
     <<".", "c", "o">>}

\* the dictionary that parse_url_breakdown returns
UrlBreakdown(full_host, subdomain, domain, tld, is_ip, registered_domain, path, port) ==
    [full_host |-> full_host, subdomain |-> subdomain, domain |-> domain,
     tld |-> tld, is_ip |-> is_ip, registered_domain |-> registered_domain,
     path |-> path, port |-> port]

\* parsed.path or "/"
PathOrRoot(parsed) == IF Len(parsed.path) = 0 THEN <<"/">> ELSE parsed.path

\* str(parsed.port) if parsed.port else ""
PortOrEmpty(parsed) == IF Port(parsed) = 0 THEN <<>> ELSE ToStr(Port(parsed))

\* parse_url_breakdown, lines 187-231: a hostname that is no IP address
BreakdownOfName(parsed, hostname) ==
    LET parts == Split(Lower(hostname), ".")
        n     == Len(parts)
        multi == n >= 3 /\ Join(LastParts(parts, 2), <<".">>) \in multi_tlds
        tld   == IF multi THEN Join(LastParts(parts, 2), <<".">>) ELSE parts[n]
        domain == IF multi THEN parts[n - 2] ELSE parts[n - 1]
        subdomain ==
            IF multi THEN (IF n > 3 THEN Join(SubSeq(parts, 1, n - 3), <<".">>)
                           ELSE <<>>)
            ELSE IF n > 2 THEN Join(SubSeq(parts, 1, n - 2), <<".">>)
            ELSE <<>>
    IN  IF n >= 2
        THEN UrlBreakdown(hostname, subdomain, domain, tld, FALSE,
                          domain \o <<".">> \o tld,
                          PathOrRoot(parsed), PortOrEmpty(parsed))
        ELSE UrlBreakdown(hostname, <<>>, hostname, <<>>, FALSE, hostname,
                          PathOrRoot(parsed), PortOrEmpty(parsed))

\* parse_url_breakdown
parse_url_breakdown(url) ==
    LET parsed   == urlparse(url)
        hostname == Hostname(parsed)
    IN  IF UrlparseRaises(url) \/ PortRaises(parsed)
        THEN UrlBreakdown(url, <<>>, url, <<>>, FALSE, url, <<"/">>, <<>>)
        ELSE IF IsIp(hostname)
        THEN UrlBreakdown(hostname, <<>>, hostname, <<>>, TRUE, hostname,
                          PathOrRoot(parsed), PortOrEmpty(parsed))
        ELSE BreakdownOfName(parsed, hostname)

\* brand: None.  A brand is a text, and None and "" are both false
NoBrand == <<>>

\* {"key": key, "brand": brand}
Tag(key, brand) == [key |-> key, brand |-> brand]

\* the tag of a rule that fired, or nothing
TagIf(fired, key) == IF fired THEN <<Tag(key, NoBrand)>> ELSE <<>>

HexDigits ==
    Digits \cup {"a", "b", "c", "d", "e", "f", "A", "B", "C", "D", "E", "F"}

XN_PREFIX == <<"x", "n", "-", "-">>

\* rule 1, lines 258-260: how many of the extensions are labels of the host
TldCount(hostname) ==
    Cardinality({ext \in tld_extensions :
                    \E k \in 1..Len(Split(hostname, ".")) :
                        Split(hostname, ".")[k] = Tail(ext)})

\* rule 2 without its first test
BrandInSubdomainMutantNever(brand, breakdown) == FALSE

\* rule 2, line 266
BrandInSubdomain(brand, breakdown) ==
    /\ Contains(Lower(breakdown.subdomain), brand)
    /\ ~Contains(Lower(breakdown.domain), brand)

\* rule 2, second test, against the TLD alone
BrandOutsideRegisteredDomainMutantTldOnly(brand, breakdown) ==
    /\ Contains(Lower(breakdown.full_host), brand)
    /\ ~Contains(breakdown.tld, brand)

\* rule 2, line 271
BrandOutsideRegisteredDomain(brand, breakdown) ==
    /\ Contains(Lower(breakdown.full_host), brand)
    /\ ~Contains(breakdown.registered_domain, brand)

\* rule 2 with a loop that does not break: the last brand that matches
BrandTagMutantLastHit(breakdown) ==
    LET hits == {k \in 1..Len(KNOWN_BRANDS) :
                    \/ BrandInSubdomain(KNOWN_BRANDS[k], breakdown)
                    \/ BrandOutsideRegisteredDomain(KNOWN_BRANDS[k], breakdown)}
        last == CHOOSE k \in hits : \A j \in hits : j <= k
    IN  IF hits = {} THEN <<>>
        ELSE IF BrandInSubdomain(KNOWN_BRANDS[last], breakdown)
        THEN <<Tag("subdomain_brand", KNOWN_BRANDS[last])>>
        ELSE <<Tag("brand_impersonation", KNOWN_BRANDS[last])>>

\* rule 2, lines 264-274: the loop over KNOWN_BRANDS up to its break
BrandTag(breakdown) ==
    LET hits == {k \in 1..Len(KNOWN_BRANDS) :
                    \/ BrandInSubdomain(KNOWN_BRANDS[k], breakdown)
                    \/ BrandOutsideRegisteredDomain(KNOWN_BRANDS[k], breakdown)}
    IN  IF hits = {} THEN <<>>
        ELSE IF BrandInSubdomain(KNOWN_BRANDS[Least(hits)], breakdown)
        THEN <<Tag("subdomain_brand", KNOWN_BRANDS[Least(hits)])>>
        ELSE <<Tag("brand_impersonation", KNOWN_BRANDS[Least(hits)])>>

\* rule 8, line 297: re.search(r'%[0-9a-fA-F]{2}', url)
HasHexEscape(url) ==
    \E i \in 1..Len(url) : url[i] = "%" /\ AllIn(url, i + 1, 2, HexDigits)

\* rule 10, lines 305-306
NonStandardPort(port) ==
    /\ Len(port) > 0
    /\ port \notin {<<>>, <<"8", "0">>, <<"4", "4", "3">>}

\* detect_attack_patterns, lines 257-313: the tags in the order in which
\* they are appended
PatternsOf(url, breakdown, hostname) ==
       TagIf(TldCount(hostname) >= 2, "double_tld")
    \o BrandTag(breakdown)
    \o TagIf(Count(hostname, "-") >= 3, "excessive_hyphens")
    \o TagIf(Count(hostname, ".") >= 4, "excessive_dots")
    \o TagIf(breakdown.is_ip, "ip_address")
    \o TagIf((<<".">> \o Lower(breakdown.tld)) \in SUSPICIOUS_TLDS,
             "suspicious_tld")
    \o TagIf(Len(url) > 100, "url_too_long")
    \o TagIf(HasHexEscape(url), "encoded_chars")
    \o TagIf(Contains(hostname, XN_PREFIX), "punycode")
    \o TagIf(NonStandardPort(breakdown.port), "port_number")
    \o TagIf(~StartsWith(Lower(url), HTTPS_PREFIX), "no_https")

\* detect_attack_patterns, lines 251-255: the breakdown is read once
detect_attack_patterns(url, breakdown) ==
    The({PatternsOf(url, b, Lower(b.full_host)) : b \in {breakdown}})


TRANSLATIONS_en ==
    [
     double_tld |-> "Double TLD Deception",
     brand_impersonation |-> "Brand Impersonation",
     excessive_hyphens |-> "Excessive Hyphens",
     excessive_dots |-> "Excessive Dots",
     ip_address |-> "IP Address Instead of Domain",
     suspicious_tld |-> "Suspicious TLD",
     url_too_long |-> "URL Obfuscation",
     encoded_chars |-> "Encoded Characters",
     subdomain_brand |-> "Brand in Subdomain",
     punycode |-> "Punycode/Homograph Attack",
     port_number |-> "Non-Standard Port",
     data_uri |-> "Data URI Scheme",
     reason_double_tld |->
         "The link contains more than one extension (like .com.com), which is commonly used in phishing",
     reason_brand_subdomain |->
         "The brand name appears in the subdomain, not the real domain - this is a common trick",
     reason_excessive_hyphens |->
         "Too many hyphens in the domain make it look suspicious",
     reason_excessive_dots |->
         "Excessive dots suggest an attempt to hide the real domain",
     reason_ip_address |->
         "Using an IP address instead of a domain name is unusual and often malicious",
     reason_suspicious_tld |->
         "The domain uses a top-level domain commonly associated with spam or abuse",
     reason_url_long |->
         "Unusually long URLs may be trying to hide malicious parts",
     reason_encoded_chars |->
         "Encoded characters can be used to disguise malicious URLs",
     reason_subdomain_brand |->
         "A legitimate brand name appears before the actual domain - this is deceptive",
     reason_punycode |->
         "The URL uses special characters that look like letters to trick you",
     reason_port_number |->
         "Non-standard port numbers are rarely used by legitimate websites",
     reason_no_https |->
         "The link does not use secure HTTPS - your data may not be protected",
     explanation_malicious |->
         "This link is designed to look like {brand} but is actually controlled by a different domain.",
     explanation_suspicious |->
         "This link shows some signs of being potentially misleading or unsafe.",
     explanation_safe |->
         "This link appears to be legitimate with no obvious signs of deception.",
     tip_double_tld |->
         "Always check the domain extension. A real site like google.com will never be google.com.com.",
     tip_brand_subdomain |->
         "If a link uses a brand name but does not end with the official domain, avoid clicking it.",
     tip_ip_address |->
         "Legitimate websites always use domain names, not IP addresses. Be very careful.",
     tip_general |->
         "When in doubt, go directly to the official website by typing the address yourself.",
     tip_verify |->
         "Verify the URL by hovering over links before clicking, and look for the lock icon in your browser.",
     tip_no_https |->
         "Only enter sensitive information on websites that show a padlock icon in the browser."
    ]

TRANSLATIONS_hi ==
    [
     double_tld |-> "hi:double_tld",
     brand_impersonation |-> "hi:brand_impersonation",
     excessive_hyphens |-> "hi:excessive_hyphens",
     excessive_dots |-> "hi:excessive_dots",
     ip_address |-> "hi:ip_address",
     suspicious_tld |-> "hi:suspicious_tld",
     url_too_long |-> "hi:url_too_long",
     encoded_chars |-> "hi:encoded_chars",
     subdomain_brand |-> "hi:subdomain_brand",
     punycode |-> "hi:punycode",
     port_number |-> "hi:port_number",
     data_uri |-> "hi:data_uri",
     reason_double_tld |-> "hi:reason_double_tld",
     reason_brand_subdomain |-> "hi:reason_brand_subdomain",
     reason_excessive_hyphens |-> "hi:reason_excessive_hyphens",
     reason_excessive_dots |-> "hi:reason_excessive_dots",
     reason_ip_address |-> "hi:reason_ip_address",
     reason_suspicious_tld |-> "hi:reason_suspicious_tld",
     reason_url_long |-> "hi:reason_url_long",
     reason_encoded_chars |-> "hi:reason_encoded_chars",
     reason_subdomain_brand |-> "hi:reason_subdomain_brand",
     reason_punycode |-> "hi:reason_punycode",
     reason_port_number |-> "hi:reason_port_number",
     reason_no_https |-> "hi:reason_no_https",
     explanation_malicious |-> "hi:explanation_malicious",
     explanation_suspicious |-> "hi:explanation_suspicious",
     explanation_safe |-> "hi:explanation_safe",
     tip_double_tld |-> "hi:tip_double_tld",
     tip_brand_subdomain |-> "hi:tip_brand_subdomain",
     tip_ip_address |-> "hi:tip_ip_address",
     tip_general |-> "hi:tip_general",
     tip_verify |-> "hi:tip_verify",
     tip_no_https |-> "hi:tip_no_https"
    ]

TRANSLATIONS_mr ==
    [
     double_tld |-> "mr:double_tld",
     brand_impersonation |-> "mr:brand_impersonation",
     excessive_hyphens |-> "mr:excessive_hyphens",
     excessive_dots |-> "mr:excessive_dots",
     ip_address |-> "mr:ip_address",
     suspicious_tld |-> "mr:suspicious_tld",
     url_too_long |-> "mr:url_too_long",
     encoded_chars |-> "mr:encoded_chars",
     subdomain_brand |-> "mr:subdomain_brand",
     punycode |-> "mr:punycode",
     port_number |-> "mr:port_number",
     data_uri |-> "hi:data_uri",
     reason_double_tld |-> "mr:reason_double_tld",
     reason_brand_subdomain |-> "mr:reason_brand_subdomain",
     reason_excessive_hyphens |-> "mr:reason_excessive_hyphens",
     reason_excessive_dots |-> "mr:reason_excessive_dots",
     reason_ip_address |-> "mr:reason_ip_address",
     reason_suspicious_tld |-> "mr:reason_suspicious_tld",
     reason_url_long |-> "mr:reason_url_long",
     reason_encoded_chars |-> "mr:reason_encoded_chars",
     reason_subdomain_brand |-> "mr:reason_subdomain_brand",
     reason_punycode |-> "mr:reason_punycode",
     reason_port_number |-> "mr:reason_port_number",
     reason_no_https |-> "mr:reason_no_https",
     explanation_malicious |-> "mr:explanation_malicious",
     explanation_suspicious |-> "mr:explanation_suspicious",
     explanation_safe |-> "mr:explanation_safe",
     tip_double_tld |-> "mr:tip_double_tld",
     tip_brand_subdomain |-> "mr:tip_brand_subdomain",
     tip_ip_address |-> "mr:tip_ip_address",
     tip_general |-> "mr:tip_general",
     tip_verify |-> "mr:tip_verify",
     tip_no_https |-> "mr:tip_no_https"
    ]

\* TRANSLATIONS
TRANSLATIONS ==
    [en |-> TRANSLATIONS_en, hi |-> TRANSLATIONS_hi, mr |-> TRANSLATIONS_mr]

\* dict.get(key, default) of a dictionary with string keys
DictGet(dict, key, default) ==
    IF key \in DOMAIN dict THEN dict[key] ELSE default

\* get_text without the fallback to the en table for an unknown lang
GetTextFromMutantNoFallback(translations_table, lang, key, default) ==
    IF lang \in DOMAIN translations_table
    THEN IF key \in DOMAIN translations_table[lang]
         THEN translations_table[lang][key]
         ELSE DictGet(translations_table["en"], key, default)
    ELSE default

\* get_text over a table of translations
GetTextFrom(translations_table, lang, key, default) ==
    LET translations ==
            DictGet(translations_table, lang, translations_table["en"])
    IN  IF key \in DOMAIN translations THEN translations[key]
        ELSE DictGet(translations_table["en"], key, default)

\* get_text
get_text(lang, key, default) == GetTextFrom(TRANSLATIONS, lang, key, default)

\* reason_keys
reason_keys ==
    [double_tld          |-> "reason_double_tld",
     subdomain_brand     |-> "reason_subdomain_brand",
     brand_impersonation |-> "reason_brand_subdomain",
     excessive_hyphens   |-> "reason_excessive_hyphens",
     excessive_dots      |-> "reason_excessive_dots",
     ip_address          |-> "reason_ip_address",
     suspicious_tld      |-> "reason_suspicious_tld",
     url_too_long        |-> "reason_url_long",
     encoded_chars       |-> "reason_encoded_chars",
     punycode            |-> "reason_punycode",
     port_number         |-> "reason_port_number",
     no_https            |-> "reason_no_https"]

\* tip_mapping
tip_mapping ==
    [double_tld          |-> "tip_double_tld",
     subdomain_brand     |-> "tip_brand_subdomain",
     brand_impersonation |-> "tip_brand_subdomain",
     ip_address          |-> "tip_ip_address",
     no_https            |-> "tip_no_https"]

\* generate_reasons
generate_reasons(attack_patterns, lang) ==
    LET HasReason(pattern) == pattern.key \in DOMAIN reason_keys
        withReason == SelectSeq(attack_patterns, HasReason)
    IN  [k \in 1..Len(withReason) |->
            get_text(lang, reason_keys[withReason[k].key], "")]

\* str.upper() of one character
UpperChar(c) ==
    IF c \in LowerLetters
    THEN CHOOSE u \in UpperLetters : LowerChar(u) = c
    ELSE c

\* str.capitalize()
Capitalize(s) ==
    [i \in 1..Len(s) |-> IF i = 1 THEN UpperChar(s[i]) ELSE LowerChar(s[i])]

\* a text of the tables with the value of its {brand} field; a text that
\* is returned as it is has no value
Rendered(text, brand) == [text |-> text, brand |-> brand]

\* template.format(brand=brand)
Format(template, brand) == Rendered(template, brand)

A_LEGITIMATE_WEBSITE ==
    <<"a", " ", "l", "e", "g", "i", "t", "i", "m", "a", "t", "e", " ", "w",
      "e", "b", "s", "i", "t", "e">>

\* generate_explanation, lines 362-366: the first brand of the tags
FirstBrand(attack_patterns) ==
    LET branded == {k \in 1..Len(attack_patterns) :
                        Len(attack_patterns[k].brand) > 0}
    IN  IF branded = {} THEN NoBrand
        ELSE Capitalize(attack_patterns[Least(branded)].brand)

\* generate_explanation
generate_explanation(attack_patterns, risk_score, lang) ==
    LET brand == FirstBrand(attack_patterns)
    IN  IF risk_score >= 70
        THEN IF Len(brand) > 0
             THEN Format(get_text(lang, "explanation_malicious", ""), brand)
             ELSE Format(get_text(lang, "explanation_malicious", ""),
                         A_LEGITIMATE_WEBSITE)
        ELSE IF risk_score >= 40
        THEN Rendered(get_text(lang, "explanation_suspicious", ""), NoBrand)
        ELSE Rendered(get_text(lang, "explanation_safe", ""), NoBrand)

\* the tip of the last tag that has one
generate_safety_tipMutantLastMapped(attack_patterns, lang) ==
    LET mapped == {k \in 1..Len(attack_patterns) :
                       attack_patterns[k].key \in DOMAIN tip_mapping}
        last   == CHOOSE k \in mapped : \A j \in mapped : j <= k
    IN  IF Len(attack_patterns) = 0 THEN get_text(lang, "tip_verify", "")
        ELSE IF mapped # {}
        THEN get_text(lang, tip_mapping[attack_patterns[last].key], "")
        ELSE get_text(lang, "tip_general", "")

\* generate_safety_tip
generate_safety_tip(attack_patterns, lang) ==
    LET mapped == {k \in 1..Len(attack_patterns) :
                       attack_patterns[k].key \in DOMAIN tip_mapping}
    IN  IF Len(attack_patterns) = 0 THEN get_text(lang, "tip_verify", "")
        ELSE IF mapped # {}
        THEN get_text(lang, tip_mapping[attack_patterns[Least(mapped)].key], "")
        ELSE get_text(lang, "tip_general", "")

\* get_attack_pattern_names, lines 413-417: the loop from the k-th tag on
RECURSIVE NamesFrom(_, _, _, _)
NamesFrom(attack_patterns, lang, k, names) ==
    IF k > Len(attack_patterns) THEN names
    ELSE LET name == get_text(lang, attack_patterns[k].key, "")
             seen == \E j \in 1..Len(names) : names[j] = name
         IN  The({NamesFrom(attack_patterns, lang, k + 1, next) :
                     next \in {IF name # "" /\ ~seen THEN Append(names, name)
                               ELSE names}})

\* get_attack_pattern_names
get_attack_pattern_names(attack_patterns, lang) ==
    NamesFrom(attack_patterns, lang, 1, <<>>)

\* analyze_url_threats
analyze_url_threats(url, lang) ==
    The({[url_breakdown       |-> breakdown,
          attack_patterns     |-> get_attack_pattern_names(patterns, lang),
          attack_pattern_keys |-> patterns,
          reasons             |-> generate_reasons(patterns, lang)] :
             <<breakdown, patterns>> \in
                 {<<b, detect_attack_patterns(url, b)>> :
                      b \in {parse_url_breakdown(url)}}})

\* get_full_threat_analysis
get_full_threat_analysis(url, risk_score, lang) ==
    The({[url_breakdown   |-> partial.url_breakdown,
          attack_patterns |-> partial.attack_patterns,
          reasons         |-> partial.reasons,
          explanation     |->
              generate_explanation(partial.attack_pattern_keys, risk_score, lang),
          safety_tip      |->
              generate_safety_tip(partial.attack_pattern_keys, lang)] :
             partial \in {analyze_url_threats(url, lang)}})


(***************************************************************************)
(* SpecExplain: one call of the attack pattern detector on a URL, of the   *)
(* explainer functions on a list of tags, or of get_full_threat_analysis   *)
(* on a URL.  The URLs are put together from a scheme, a host, a port and  *)
(* a path.                                                                 *)
(***************************************************************************)

\* google.paymentverify.xyz
Host_brand_subdomain ==
    <<"g", "o", "o", "g", "l", "e", ".", "p", "a", "y", "m", "e", "n", "t",
      "v", "e", "r", "i", "f", "y", ".", "x", "y", "z">>

\* google.com.com
Host_repeated_extension ==
    <<"g", "o", "o", "g", "l", "e", ".", "c", "o", "m", ".", "c", "o", "m">>

\* google.com.net
Host_two_extensions ==
    <<"g", "o", "o", "g", "l", "e", ".", "c", "o", "m", ".", "n", "e", "t">>

\* example.com
Host_plain == <<"e", "x", "a", "m", "p", "l", "e", ".", "c", "o", "m">>

\* paypal.com
Host_brand_domain == <<"p", "a", "y", "p", "a", "l", ".", "c", "o", "m">>

\* secure-login-paypal-update.evil.tk
Host_hyphens ==
    <<"s", "e", "c", "u", "r", "e", "-", "l", "o", "g", "i", "n", "-", "p",
      "a", "y", "p", "a", "l", "-", "u", "p", "d", "a", "t", "e", ".", "e",
      "v", "i", "l", ".", "t", "k">>

\* a.b.c.d.example.org
Host_dots ==
    <<"a", ".", "b", ".", "c", ".", "d", ".", "e", "x", "a", "m", "p", "l",
      "e", ".", "o", "r", "g">>

\* 192.168.1.1
Host_ip == <<"1", "9", "2", ".", "1", "6", "8", ".", "1", ".", "1">>

\* xn--pple-43d.com
Host_punycode ==
    <<"x", "n", "-", "-", "p", "p", "l", "e", "-", "4", "3", "d", ".", "c",
      "o", "m">>

\* paypal.google.evil.xyz
Host_two_brands ==
    <<"p", "a", "y", "p", "a", "l", ".", "g", "o", "o", "g", "l", "e", ".",
      "e", "v", "i", "l", ".", "x", "y", "z">>

\* google.google.com
Host_brand_both ==
    <<"g", "o", "o", "g", "l", "e", ".", "g", "o", "o", "g", "l", "e", ".",
      "c", "o", "m">>

\* mail.google.co.uk
Host_multi_tld ==
    <<"m", "a", "i", "l", ".", "g", "o", "o", "g", "l", "e", ".", "c", "o",
      ".", "u", "k">>

\* pineapple.co.in
Host_brand_in_word ==
    <<"p", "i", "n", "e", "a", "p", "p", "l", "e", ".", "c", "o", ".", "i",
      "n">>

\* localhost
Host_single_label == <<"l", "o", "c", "a", "l", "h", "o", "s", "t">>

\* www.edu.gov.example.net
Host_extension_first ==
    <<"w", "w", "w", ".", "e", "d", "u", ".", "g", "o", "v", ".", "e", "x",
      "a", "m", "p", "l", "e", ".", "n", "e", "t">>

\* Amazon.Evil.COM
Host_upper_case ==
    <<"A", "m", "a", "z", "o", "n", ".", "E", "v", "i", "l", ".", "C", "O",
      "M">>

\* [::1
Host_open_bracket == <<"[", ":", ":", "1">>
\* paypal@evil.club
Host_user ==
    <<"p", "a", "y", "p", "a", "l", "@", "e", "v", "i", "l", ".", "c", "l",
      "u", "b">>

UrlHosts ==
    {Host_brand_subdomain, Host_repeated_extension, Host_two_extensions,
     Host_plain, Host_brand_domain, Host_hyphens, Host_dots, Host_ip,
     Host_punycode, Host_two_brands, Host_brand_both, Host_multi_tld,
     Host_brand_in_word, Host_single_label, Host_extension_first,
     Host_upper_case, Host_user, Host_open_bracket}

UrlSchemes ==
    {<<>>, HTTP_PREFIX, HTTPS_PREFIX,
     <<"H", "T", "T", "P", "S", ":", "/", "/">>}

\* ports: none, the standard ones, another one, one out of range, no number
UrlPorts ==
    {<<>>, <<":", "8", "0">>, <<":", "4", "4", "3">>,
     <<":", "8", "0", "8", "0">>, <<":", "9", "9", "9", "9", "9">>,
     <<":", "x">>}

LongPathLen == 101

\* paths: none, a plain one, one with a hex escape, one with a "%" that is
\* no escape, one that makes the URL longer than 100 characters
UrlPaths ==
    {<<>>, <<"/", "l", "o", "g", "i", "n">>,
     <<"/", "a", "%", "2", "0", "b">>, <<"/", "%", "z", "z">>,
     <<"/">> \o [i \in 1..LongPathLen |-> "a"]}

Urls ==
    {scheme \o host \o port \o path :
        scheme \in UrlSchemes, host \in UrlHosts, port \in UrlPorts,
        path \in UrlPaths}

\* the URLs of the full analysis: a host with or without TLS
PlainUrls ==
    {scheme \o host : scheme \in {HTTP_PREFIX, HTTPS_PREFIX}, host \in UrlHosts}

Brand_google == KNOWN_BRANDS[1]
Brand_paypal == KNOWN_BRANDS[6]

\* tags for the explainer functions: tags of the detector, a tag with a name
\* and no reason or tip (data_uri), and a tag that no table knows
SomeTags ==
    {Tag("double_tld", NoBrand), Tag("subdomain_brand", Brand_google),
     Tag("brand_impersonation", Brand_paypal), Tag("excessive_hyphens", NoBrand),
     Tag("ip_address", NoBrand), Tag("suspicious_tld", NoBrand),
     Tag("no_https", NoBrand), Tag("data_uri", NoBrand),
     Tag("unknown_rule", NoBrand)}

MaxTags == 2

TagLists == UNION {[1..n -> SomeTags] : n \in 0..MaxTags}

\* risk scores around the thresholds
RiskScores == {0, 29, 30, 35, 39, 40, 69, 70, 100}

\* lang: the supported locales and one that is not
Langs == {"en", "hi", "mr", "fr"}

DetectCall(url) == [pc |-> "called", kind |-> "detect", url |-> url]

ExplainCall(attack_patterns, risk_score, lang) ==
    [pc |-> "called", kind |-> "explain", attack_patterns |-> attack_patterns,
     risk_score |-> risk_score, lang |-> lang]

AnalysisCall(url, risk_score, lang) ==
    [pc |-> "called", kind |-> "analysis", url |-> url,
     risk_score |-> risk_score, lang |-> lang]

\* parse_url_breakdown and detect_attack_patterns are called and return
Detect ==
    /\ scan.pc = "called" /\ scan.kind = "detect"
    /\ scan' = [pc |-> "returned", kind |-> scan.kind, url |-> scan.url,
                breakdown |-> parse_url_breakdown(scan.url),
                result |-> detect_attack_patterns(scan.url,
                                                  parse_url_breakdown(scan.url))]
    /\ UNCHANGED LimiterVars

\* the four functions that turn tags into texts are called and return
Explain ==
    /\ scan.pc = "called" /\ scan.kind = "explain"
    /\ scan' = [pc |-> "returned", kind |-> scan.kind,
                attack_patterns |-> scan.attack_patterns,
                risk_score |-> scan.risk_score, lang |-> scan.lang,
                result |->
                    [attack_patterns |->
                         get_attack_pattern_names(scan.attack_patterns, scan.lang),
                     reasons |-> generate_reasons(scan.attack_patterns, scan.lang),
                     explanation |->
                         generate_explanation(scan.attack_patterns,
                                              scan.risk_score, scan.lang),
                     safety_tip |->
                         generate_safety_tip(scan.attack_patterns, scan.lang)]]
    /\ UNCHANGED LimiterVars

\* get_full_threat_analysis is called and returns
Analysis ==
    /\ scan.pc = "called" /\ scan.kind = "analysis"
    /\ scan' = [pc |-> "returned", kind |-> scan.kind, url |-> scan.url,
                risk_score |-> scan.risk_score, lang |-> scan.lang,
                result |-> get_full_threat_analysis(scan.url, scan.risk_score,
                                                    scan.lang)]
    /\ UNCHANGED LimiterVars

InitExplain ==
    /\ LimiterAtRest
    /\ \/ \E url \in Urls : scan = DetectCall(url)
       \/ \E tags \in TagLists, risk_score \in RiskScores, lang \in Langs :
              scan = ExplainCall(tags, risk_score, lang)
       \/ \E url \in PlainUrls, risk_score \in RiskScores, lang \in Langs :
              scan = AnalysisCall(url, risk_score, lang)

NextExplain == Detect \/ Explain \/ Analysis

SpecExplain == InitExplain /\ [][NextExplain]_vars


(***************************************************************************)
(* Part 4: utils/heuristics.py, the analyzers of a URL and of a text.      *)
(* A score is counted in hundredths.                                       *)
(***************************************************************************)

\* SUSPICIOUS_KEYWORDS
SUSPICIOUS_KEYWORDS ==
    <<<<"u", "r", "g", "e", "n", "t">>,
      <<"i", "m", "m", "e", "d", "i", "a", "t", "e", "l", "y">>,
      <<"a", "c", "t", " ", "n", "o", "w">>,
      <<"l", "i", "m", "i", "t", "e", "d", " ", "t", "i", "m", "e">>,
      <<"e", "x", "p", "i", "r", "e">>,
      <<"l", "o", "t", "t", "e", "r", "y">>,
      <<"w", "i", "n", "n", "e", "r">>,
      <<"p", "r", "i", "z", "e">>,
      <<"j", "a", "c", "k", "p", "o", "t">>,
      <<"m", "i", "l", "l", "i", "o", "n">>,
      <<"l", "a", "k", "h">>,
      <<"c", "r", "o", "r", "e">>,
      <<"f", "r", "e", "e", " ", "m", "o", "n", "e", "y">>,
      <<"c", "a", "s", "h", " ", "p", "r", "i", "z", "e">>,
      <<"r", "e", "w", "a", "r", "d">>,
      <<"v", "e", "r", "i", "f", "y", " ", "y", "o", "u", "r", " ", "a",
        "c", "c", "o", "u", "n", "t">>,
      <<"s", "u", "s", "p", "e", "n", "d", "e", "d">>,
      <<"b", "l", "o", "c", "k", "e", "d">>,
      <<"u", "n", "a", "u", "t", "h", "o", "r", "i", "z", "e", "d">>,
      <<"s", "e", "c", "u", "r", "i", "t", "y", " ", "a", "l", "e", "r", "t">>,
      <<"c", "o", "n", "f", "i", "r", "m", " ", "y", "o", "u", "r", " ",
        "i", "d", "e", "n", "t", "i", "t", "y">>,
      <<"u", "p", "d", "a", "t", "e", " ", "y", "o", "u", "r", " ", "d",
        "e", "t", "a", "i", "l", "s">>,
      <<"b", "a", "n", "k", " ", "d", "e", "t", "a", "i", "l", "s">>,
      <<"c", "r", "e", "d", "i", "t", " ", "c", "a", "r", "d">>,
      <<"c", "v", "v">>,
      <<"p", "i", "n">>,
      <<"o", "t", "p">>,
      <<"u", "p", "i">>,
      <<"t", "r", "a", "n", "s", "f", "e", "r">>,
      <<"p", "a", "y", "m", "e", "n", "t", " ", "f", "a", "i", "l", "e", "d">>,
      <<"r", "e", "f", "u", "n", "d">>,
      <<"w", "o", "r", "k", " ", "f", "r", "o", "m", " ", "h", "o", "m", "e">>,
      <<"e", "a", "s", "y", " ", "m", "o", "n", "e", "y">>,
      <<"p", "a", "r", "t", " ", "t", "i", "m", "e", " ", "j", "o", "b">>,
      <<"d", "a", "t", "a", " ", "e", "n", "t", "r", "y">>,
      <<"t", "y", "p", "i", "n", "g", " ", "j", "o", "b">>,
      <<"i", "n", "v", "e", "s", "t", "m", "e", "n", "t", " ", "o", "p",
        "p", "o", "r", "t", "u", "n", "i", "t", "y">>,
      <<"p", "o", "l", "i", "c", "e">>,
      <<"c", "b", "i">>,
      <<"c", "y", "b", "e", "r", " ", "c", "e", "l", "l">>,
      <<"a", "r", "r", "e", "s", "t", " ", "w", "a", "r", "r", "a", "n", "t">>,
      <<"l", "e", "g", "a", "l", " ", "a", "c", "t", "i", "o", "n">>,
      <<"c", "o", "u", "r", "t", " ", "c", "a", "s", "e">>,
      <<"a", "a", "d", "h", "a", "a", "r">>,
      <<"p", "a", "n", " ", "c", "a", "r", "d">>,
      <<"d", "e", "a", "r", " ", "f", "r", "i", "e", "n", "d">>,
      <<"l", "o", "n", "e", "l", "y">>,
      <<"s", "e", "n", "d", " ", "m", "e", " ", "m", "o", "n", "e", "y">>,
      <<"w", "e", "s", "t", "e", "r", "n", " ", "u", "n", "i", "o", "n">>,
      <<"c", "l", "i", "c", "k", " ", "h", "e", "r", "e">>,
      <<"l", "o", "g", "i", "n", " ", "n", "o", "w">>,
      <<"v", "e", "r", "i", "f", "y", " ", "n", "o", "w">>,
      <<"c", "o", "n", "f", "i", "r", "m", " ", "n", "o", "w">>>>

\* SUSPICIOUS_TLDS of heuristics.py (the explainer has a list of its own)
heuristics_SUSPICIOUS_TLDS ==
    {<<".", "t", "k">>,
     <<".", "m", "l">>,
     <<".", "g", "a">>,
     <<".", "c", "f">>,
     <<".", "g", "q">>,
     <<".", "x", "y", "z">>,
     <<".", "t", "o", "p">>,
     <<".", "w", "o", "r", "k">>,
     <<".", "c", "l", "i", "c", "k">>,
     <<".", "l", "i", "n", "k">>}

\* the keywords of line 123
AUTH_KEYWORDS ==
    {<<"l", "o", "g", "i", "n">>,
     <<"v", "e", "r", "i", "f", "y">>,
     <<"s", "e", "c", "u", "r", "e">>,
     <<"a", "c", "c", "o", "u", "n", "t">>,
     <<"u", "p", "d", "a", "t", "e">>}

\* has_https
has_https(url) == StartsWith(Lower(url), HTTPS_PREFIX)

\* s[i..j] is one to three digits
DigitGroup(s, i, j) ==
    /\ j - i + 1 \in 1..3
    /\ \A k \in i..j : s[k] \in Digits

\* contains_ip: IP_PATTERN.search(url), \d{1,3}\.\d{1,3}\.\d{1,3}\.\d{1,3}
\* somewhere in the text: three dots with digit groups between them, a
\* digit before the first and a digit after the last
contains_ip(url) ==
    \E p1, p2, p3 \in {i \in 1..Len(url) : url[i] = "."} :
        /\ p1 < p2 /\ p2 < p3
        /\ p1 > 1 /\ url[p1 - 1] \in Digits
        /\ DigitGroup(url, p1 + 1, p2 - 1)
        /\ DigitGroup(url, p2 + 1, p3 - 1)
        /\ p3 < Len(url) /\ url[p3 + 1] \in Digits

\* str.endswith
EndsWith(s, lit) == LitAt(s, Len(s) - Len(lit) + 1, lit)

\* has_suspicious_tld
has_suspicious_tld(url) ==
    IF UrlparseRaises(url) THEN FALSE
    ELSE \E tld \in heuristics_SUSPICIOUS_TLDS :
             EndsWith(Lower(urlparse(url).netloc), tld)

\* one check that matched: its flag and its weight
Finding(flag, weight) == [flag |-> flag, weight |-> weight]

\* the finding of a check that matched, or nothing
FindingIf(matched, flag, weight) ==
    IF matched THEN <<Finding(flag, weight)>> ELSE <<>>

RECURSIVE SumWeights(_)
SumWeights(findings) ==
    IF Len(findings) = 0 THEN 0
    ELSE findings[1].weight + SumWeights(Tail(findings))

\* min(score, 1.0) and the flags
HeuristicResult(findings) ==
    [score |-> IF SumWeights(findings) > 100 THEN 100 ELSE SumWeights(findings),
     flags |-> [k \in 1..Len(findings) |-> findings[k].flag]]

\* analyze_url_structure, lines 93-130: the checks on a URL that urlparse
\* accepts
UrlFindings(url, parsed) ==
       FindingIf(~has_https(url), "Missing HTTPS - connection not secure", 15)
    \o FindingIf(contains_ip(url), "Uses IP address instead of domain name", 25)
    \o FindingIf(has_suspicious_tld(url), "Uses suspicious top-level domain", 20)
    \o FindingIf(Len(Split(parsed.netloc, ".")) > 4,
                 "Excessive subdomains - possible domain spoofing", 15)
    \o FindingIf(Len(url) > 100, "Unusually long URL", 10)
    \o FindingIf(\E x \in AUTH_KEYWORDS : Contains(Lower(parsed.path), x),
                 "Contains authentication-related keywords in path", 10)
    \o FindingIf(Count(url, "%") > 3,
                 "Excessive URL encoding - possible obfuscation", 10)

\* analyze_url_structure
analyze_url_structure(url) ==
    IF UrlparseRaises(url)
    THEN HeuristicResult(<<Finding("URL parsing error: Invalid IPv6 URL", 30)>>)
    ELSE The({HeuristicResult(findings) :
                 findings \in {UrlFindings(url, urlparse(url))}})


\* count_suspicious_keywords: the keywords found, in the order of the list
count_suspicious_keywords(text) ==
    LET InText(keyword) == Contains(Lower(text), keyword)
    IN  SelectSeq(SUSPICIOUS_KEYWORDS, InText)

\* str.split(): the words between the blanks, in their order
Words(text) ==
    LET starts == {i \in 1..Len(text) :
                      /\ text[i] \notin Whitespace
                      /\ i = 1 \/ text[i - 1] \in Whitespace}
        nth(k) == CHOOSE i \in starts : Cardinality({j \in starts : j <= i}) = k
        end(i) == LET blanks == {j \in i..Len(text) : text[j] \in Whitespace}
                  IN  IF blanks = {} THEN Len(text) ELSE Least(blanks) - 1
    IN  [k \in 1..Cardinality(starts) |-> SubSeq(text, nth(k), end(nth(k)))]

\* str.isupper(): a letter, and no letter in lower case
IsUpper(w) ==
    /\ \E i \in 1..Len(w) : w[i] \in UpperLetters
    /\ \A i \in 1..Len(w) : w[i] \notin LowerLetters

\* caps_words, line 160
caps_words(text) ==
    LET Shouted(w) == IsUpper(w) /\ Len(w) > 2
    IN  SelectSeq(Words(text), Shouted)

\* phone_pattern, line 171: [\+]?[\d\s\-]{10,} somewhere in the text
HasPhoneShape(text) ==
    \E i \in 1..Len(text) : AllIn(text, i, 10, Digits \cup Whitespace \cup {"-"})

\* the currency signs of line 177, of which the texts use the dollar only
CurrencySigns == {"$"}

AmountChars == Digits \cup {","}

\* the units of line 177: rs, inr, usd, dollars?
CurrencyUnits ==
    {<<"r", "s">>, <<"i", "n", "r">>, <<"u", "s", "d">>,
     <<"d", "o", "l", "l", "a", "r">>}

\* currency_pattern, line 177: a sign, blanks and an amount, or an amount,
\* blanks and a unit, somewhere in the text
HasCurrency(text) ==
    \/ \E i \in 1..Len(text) :
          /\ text[i] \in CurrencySigns
          /\ \E k \in 0..RunLen(text, i + 1, Whitespace) :
                AllIn(text, i + 1 + k, 1, AmountChars)
    \/ \E i \in 1..Len(text) :
          /\ text[i] \in AmountChars
          /\ \E k \in 0..RunLen(text, i + 1, Whitespace) :
                \E unit \in CurrencyUnits : LitAtIgnoreCase(text, i + 1 + k, unit)

WWW_PREFIX == <<"w", "w", "w", ".">>

\* link_pattern, line 183: https?://|www\. somewhere in the text
HasLink(text) ==
    \E i \in 1..Len(text) :
        \/ LitAtIgnoreCase(text, i, HTTP_PREFIX)
        \/ LitAtIgnoreCase(text, i, HTTPS_PREFIX)
        \/ LitAtIgnoreCase(text, i, WWW_PREFIX)

\* a flag with the text that is put into it
Flag(template, detail) == [template |-> template, detail |-> detail]

\* the keyword signal without its cap
KeywordWeightMutantNoCap(keyword_count) == keyword_count * 10

\* min(keyword_count * 0.1, 0.5)
KeywordWeight(keyword_count) ==
    IF keyword_count * 10 > 50 THEN 50 ELSE keyword_count * 10

\* analyze_text_content, lines 153-186: the signals of a text
TextFindings(text, found_keywords) ==
       FindingIf(Len(found_keywords) > 0,
                 Flag("Contains suspicious keywords: ",
                      Join(Prefix(found_keywords, 5), <<",", " ">>)),
                 KeywordWeight(Len(found_keywords)))
    \o FindingIf(Len(caps_words(text)) > 3,
                 Flag("Excessive use of ALL CAPS - creates false urgency", <<>>),
                 15)
    \o FindingIf(Count(text, "!") > 3 \/ Count(text, "?") > 5,
                 Flag("Excessive punctuation - creates false urgency", <<>>), 10)
    \o FindingIf(HasPhoneShape(text),
                 Flag("Contains phone number - verify before calling", <<>>), 5)
    \o FindingIf(HasCurrency(text), Flag("Mentions monetary amounts", <<>>), 10)
    \o FindingIf(HasLink(text),
                 Flag("Contains links - verify before clicking", <<>>), 10)

\* analyze_text_content
analyze_text_content(text) ==
    The({HeuristicResult(findings) :
            findings \in {TextFindings(text, found_keywords) :
                              found_keywords \in {count_suspicious_keywords(text)}}})


(***************************************************************************)
(* SpecHeuristics: one call of analyze_url_structure on a URL or of        *)
(* analyze_text_content on a text.  A text is a number of keyword phrases  *)
(* followed by the phrases of some of the other signals.                   *)
(***************************************************************************)

\* http://1.2.3.4.evil.a.tk/login%%%%aaa... : every check matches
Url_all_checks ==
    <<"h", "t", "t", "p", ":", "/", "/", "1", ".", "2", ".", "3", ".", "4",
      ".", "e", "v", "i", "l", ".", "a", ".", "t", "k", "/", "l", "o", "g",
      "i", "n", "%", "%", "%", "%", "a", "a", "a", "a", "a", "a", "a", "a",
      "a", "a", "a", "a", "a", "a", "a", "a", "a", "a", "a", "a", "a", "a",
      "a", "a", "a", "a", "a", "a", "a", "a", "a", "a", "a", "a", "a", "a",
      "a", "a", "a", "a", "a", "a", "a", "a", "a", "a", "a", "a", "a", "a",
      "a", "a", "a", "a", "a", "a", "a", "a", "a", "a", "a", "a", "a", "a",
      "a", "a", "a", "a", "a", "a">>

\* https://example.com/1.2.3.4
Url_ip_in_path ==
    <<"h", "t", "t", "p", "s", ":", "/", "/", "e", "x", "a", "m", "p", "l",
      "e", ".", "c", "o", "m", "/", "1", ".", "2", ".", "3", ".", "4">>

\* http://192.168.1.1/login/verify
Url_ip_login ==
    <<"h", "t", "t", "p", ":", "/", "/", "1", "9", "2", ".", "1", "6", "8",
      ".", "1", ".", "1", "/", "l", "o", "g", "i", "n", "/", "v", "e", "r",
      "i", "f", "y">>

\* https://u.v.w.x@a.com
Url_dots_in_user ==
    <<"h", "t", "t", "p", "s", ":", "/", "/", "u", ".", "v", ".", "w", ".",
      "x", "@", "a", ".", "c", "o", "m">>

\* https://example.com/%41%42%43%44
Url_four_escapes ==
    <<"h", "t", "t", "p", "s", ":", "/", "/", "e", "x", "a", "m", "p", "l",
      "e", ".", "c", "o", "m", "/", "%", "4", "1", "%", "4", "2", "%", "4",
      "3", "%", "4", "4">>

HeuristicUrls ==
    Urls \cup {Url_all_checks, Url_ip_in_path, Url_ip_login, Url_dots_in_user,
               Url_four_escapes}

\* phrases with a keyword each; "cash prize" holds the keyword "prize" too
KeywordPhrases ==
    <<<<"u", "r", "g", "e", "n", "t", " ">>,
      <<"l", "o", "t", "t", "e", "r", "y", " ">>,
      <<"w", "i", "n", "n", "e", "r", " ">>,
      <<"c", "a", "s", "h", " ", "p", "r", "i", "z", "e", " ">>,
      <<"r", "e", "f", "u", "n", "d", " ">>,
      <<"p", "o", "l", "i", "c", "e", " ">>,
      <<"o", "t", "p", " ">>,
      <<"V", "e", "r", "i", "f", "y", " ", "N", "o", "w", " ">>>>

\* WIN BIG NOW FREE 
Phrase_caps ==
    <<"W", "I", "N", " ", "B", "I", "G", " ", "N", "O", "W", " ", "F", "R",
      "E", "E", " ">>

\* hey!!!! 
Phrase_punctuation == <<"h", "e", "y", "!", "!", "!", "!", " ">>

\* 9876543210 
Phrase_phone == <<"9", "8", "7", "6", "5", "4", "3", "2", "1", "0", " ">>

\* $500 
Phrase_currency == <<"$", "5", "0", "0", " ">>

\* www.x.in 
Phrase_link == <<"w", "w", "w", ".", "x", ".", "i", "n", " ">>

SignalPhrases ==
    <<Phrase_caps, Phrase_punctuation, Phrase_phone, Phrase_currency, Phrase_link>>

\* the text of the spec's scenario
Text_scenario ==
    <<"U", "R", "G", "E", "N", "T", ":", " ", "Y", "o", "u", "r", " ", "a",
      "c", "c", "o", "u", "n", "t", " ", "i", "s", " ", "s", "u", "s", "p",
      "e", "n", "d", "e", "d", "!", " ", "V", "e", "r", "i", "f", "y", " ",
      "n", "o", "w", "!", " ", "C", "a", "l", "l", " ", "9", "8", "7", "6",
      "5", "4", "3", "2", "1", "0">>

\* typing 500 Rs: "pin" inside a word, an amount with a unit
Text_typing ==
    <<"t", "y", "p", "i", "n", "g", " ", "5", "0", "0", " ", "R", "s">>

\* ten blanks
Text_blanks == <<" ", " ", " ", " ", " ", " ", " ", " ", " ", " ">>

\* the first n keyword phrases
RECURSIVE KeywordText(_)
KeywordText(n) ==
    IF n = 0 THEN <<>> ELSE KeywordText(n - 1) \o KeywordPhrases[n]

\* the phrases of a set of signals, in the order of SignalPhrases
RECURSIVE SignalText(_, _)
SignalText(signals, k) ==
    IF k > Len(SignalPhrases) THEN <<>>
    ELSE (IF k \in signals THEN SignalPhrases[k] ELSE <<>>)
         \o SignalText(signals, k + 1)

\* the text with n keyword phrases and the phrases of a set of signals
ComposedText(n, signals) == KeywordText(n) \o SignalText(signals, 1)

Texts ==
    {ComposedText(n, signals) :
        n \in 0..Len(KeywordPhrases), signals \in SUBSET (1..Len(SignalPhrases))}
    \cup {Text_scenario, Text_typing, Text_blanks}

AnalyzeUrlCall(url) == [pc |-> "called", kind |-> "analyze_url", url |-> url]

AnalyzeTextCall(text) == [pc |-> "called", kind |-> "analyze_text", text |-> text]

\* analyze_url_structure is called and returns
AnalyzeUrl ==
    /\ scan.pc = "called" /\ scan.kind = "analyze_url"
    /\ scan' = [pc |-> "returned", kind |-> scan.kind, url |-> scan.url,
                result |-> analyze_url_structure(scan.url)]
    /\ UNCHANGED LimiterVars

\* analyze_text_content is called and returns
AnalyzeText ==
    /\ scan.pc = "called" /\ scan.kind = "analyze_text"
    /\ scan' = [pc |-> "returned", kind |-> scan.kind, text |-> scan.text,
                result |-> analyze_text_content(scan.text)]
    /\ UNCHANGED LimiterVars

InitHeuristics ==
    /\ LimiterAtRest
    /\ \/ \E url \in HeuristicUrls : scan = AnalyzeUrlCall(url)
       \/ \E text \in Texts : scan = AnalyzeTextCall(text)

NextHeuristics == AnalyzeUrl \/ AnalyzeText

SpecHeuristics == InitHeuristics /\ [][NextHeuristics]_vars


(***************************************************************************)
(* SpecRedact: one call of redact_pii on a text.  A text is a piece of     *)
(* PII between a lead and a tail, alone or after the same piece.           *)
(***************************************************************************)

Pii_phone == <<"9", "8", "7", "6", "5", "4", "3", "2", "1", "0">>

Pii_email ==
    <<"t", "e", "s", "t", "@", "e", "x", "a", "m", "p", "l", "e", ".", "c",
      "o", "m">>

Pii_aadhaar ==
    <<"1", "2", "3", "4", " ", "5", "6", "7", "8", " ", "9", "0", "1", "2">>

Pii_card ==
    <<"1", "2", "3", "4", "-", "5", "6", "7", "8", "-", "9", "0", "1", "2",
      "-", "3", "4", "5", "6">>

Pii_cvv == <<"c", "v", "v", " ", "1", "2", "3">>

Pii_pan == <<"A", "B", "C", "D", "E", "1", "2", "3", "4", "F">>

Pii_otp == <<"p", "i", "n", " ", "1", "2", "3", "4">>

Pii_upi == <<"u", "s", "e", "r", "@", "o", "k", "a", "x", "i", "s">>

Pii_account ==
    <<"a", "/", "c", ":", "1", "2", "3", "4", "5", "6", "7", "8", "9">>

Pii_ifsc == <<"S", "B", "I", "N", "0", "0", "0", "1", "2", "3", "4">>

Pii_none == <<"h", "e", "l", "l", "o">>

PiiPieces ==
    {Pii_phone, Pii_email, Pii_aadhaar, Pii_card, Pii_cvv, Pii_pan, Pii_otp,
     Pii_upi, Pii_account, Pii_ifsc, Pii_none}

\* what stands before a piece: nothing, the leads of the tests, a word that
\* is glued to the piece, the start of an address
PiiLeads ==
    {<<>>,
     <<"C", "a", "l", "l", " ", "m", "e", " ", "a", "t", " ">>,
     <<"C", "o", "n", "t", "a", "c", "t", ":", " ">>,
     <<"A", "a", "d", "h", "a", "a", "r", ":", " ">>,
     <<"r", "e", "f", "_">>,
     <<"a", "@", "1", ".">>}

PiiTails == {<<>>, <<"x">>, <<" ", "o", "k">>}

\* the safe text of the tests
Text_safe ==
    <<"T", "h", "i", "s", " ", "i", "s", " ", "a", " ", "s", "a", "f", "e",
      " ", "m", "e", "s", "s", "a", "g", "e", " ", "w", "i", "t", "h", " ",
      "n", "o", " ", "P", "I", "I">>

\* an address, and an account number after the start of an address
Text_two_addresses ==
    <<"x", "@", "y", ".", "c", "o", "m", " ", "a", "@", "1", ".", "a", "/",
      "c", "1", "2", "3", "4", "5", "6", "7", "8", "9">>

RedactTexts ==
    {lead \o piece \o tail :
        lead \in PiiLeads, piece \in PiiPieces, tail \in PiiTails}
    \cup {piece \o <<" ">> \o lead \o piece \o tail :
             lead \in PiiLeads, piece \in PiiPieces, tail \in PiiTails}
    \cup {Text_safe, Text_two_addresses, Text_scenario, Text_blanks}

RedactCall(text) == [pc |-> "called", kind |-> "redact", text |-> text]

\* redact_pii is called and returns
Redact ==
    /\ scan.pc = "called" /\ scan.kind = "redact"
    /\ scan' = [pc |-> "returned", kind |-> scan.kind, text |-> scan.text,
                result |-> redact_pii(scan.text)]
    /\ UNCHANGED LimiterVars

InitRedact ==
    /\ LimiterAtRest
    /\ \E text \in RedactTexts : scan = RedactCall(text)

NextRedact == Redact

SpecRedact == InitRedact /\ [][NextRedact]_vars

(***************************************************************************)
(* Properties of the rate limiter                                          *)
(***************************************************************************)
\* the times at which requests of client cid and class ep were recorded
HistoryOf(cid, ep) ==
    LET SameClass(e) == e[2] = ep
    IN  SelectSeq(Lookup(admitted, cid), SameClass)

\* how many entries of h have lo < ts <= hi
CountIn(h, lo, hi) == Cardinality({i \in 1..Len(h) : lo < h[i][1] /\ h[i][1] <= hi})

ClientIds == {get_client_id(RequestKinds[k]) : k \in DOMAIN RequestKinds}

\* the recorded requests of h are in the order of their times
InTimeOrder(h) == \A i \in 1..(Len(h) - 1) : h[i][1] <= h[i + 1][1]

\* no span [a, a + length) holds more than limit recorded requests of h: of
\* any limit + 1 consecutive ones, the last is at least length after the first
WindowHolds(h, length, limit) ==
    \A i \in (limit + 1)..Len(h) : h[i][1] - h[i - limit][1] >= length

WithinLimits ==
    \A cid \in DOMAIN admitted, ep \in EndpointTypes :
        LET h == HistoryOf(cid, ep)
            config == RATE_LIMITS[ep]
        IN  /\ InTimeOrder(h)
            /\ WindowHolds(h, config.burst_window, config.burst_limit)
            /\ WindowHolds(h, ONE_MINUTE, config.requests_per_minute)
            /\ WindowHolds(h, ONE_HOUR, config.requests_per_hour)

Rejected(r) == slot[r].pc = "done" /\ slot[r].error # None

\* C1: for every client and endpoint class the recorded requests never number
\* more than burst_limit in any burst_window seconds, requests_per_minute in
\* any 60 seconds, requests_per_hour in any 3600 seconds (spans [a, a + length))
C1_AdmittedWithinLimits == WithinLimits

\* a request is refused for the hourly limit with exactly requests_per_hour
\* requests recorded in the hour before it
C1_Witness ==
    \E r \in AllSlots :
        /\ Rejected(r)
        /\ slot[r].error = HourMessage
        /\ CountIn(HistoryOf(CidOf(r), EpOf(r)), slot[r].current_time - ONE_HOUR,
                   slot[r].current_time) = RATE_LIMITS[EpOf(r)].requests_per_hour

\* C2: the read-count-then-append sequence of a check_rate_limit call never
\* interleaves with another call or with the sweep: at most one coroutine is
\* inside check_rate_limit, it holds the event loop, what it counted is still
\* true of the dictionary when it appends, and no limit is exceeded
C2_CheckAndRecordAtomic ==
    /\ \A r1, r2 \in AllSlots : (InCheck(r1) /\ InCheck(r2)) => r1 = r2
    /\ \A r \in AllSlots : InCheck(r) => running = r
    /\ \A r \in AllSlots :
           slot[r].pc = "record" =>
               Decide(Lookup(requests, CidOf(r)), EpOf(r), slot[r].current_time) = None
    /\ WithinLimits

\* two requests of one bucket are in flight together, and the one inside
\* check_rate_limit is about to take the last place under the burst limit
C2_Witness ==
    \E r1, r2 \in AllSlots :
        /\ r1 # r2
        /\ slot[r1].pc = "record"
        /\ slot[r2].pc = "call_next"
        /\ CidOf(r1) = CidOf(r2)
        /\ EpOf(r1) = EpOf(r2)
        /\ CountIn(HistoryOf(CidOf(r1), EpOf(r1)), now - RATE_LIMITS[EpOf(r1)].burst_window,
                   now) = RATE_LIMITS[EpOf(r1)].burst_limit - 1

\* C3: scan class (5 per 10 s): a scan request that finds 5 scan requests of
\* its client recorded in the last 10 seconds is refused with the burst
\* reason; one that finds fewer than 5 (and the minute and hour limits not
\* reached) is admitted, so a refusal ends once the window has passed
C3_ScanBurst ==
    [][\A r \in AllSlots :
          (slot[r].pc = "check" /\ slot'[r].pc # "check" /\ EpOf(r) = "scan") =>
              LET h == HistoryOf(CidOf(r), "scan")
              IN  /\ CountIn(h, now - 10, now) >= 5 =>
                         /\ slot'[r].pc = "done"
                         /\ slot'[r].status = STATUS_RATE_LIMITED
                         /\ slot'[r].message = BurstMessage(10)
                  /\ (/\ CountIn(h, now - 10, now) < 5
                      /\ CountIn(h, now - 60, now) < 20
                      /\ CountIn(h, now - 3600, now) < 200) =>
                         slot'[r].pc = "record"]_vars

\* five scan requests were recorded within 10 seconds, a sixth was refused in
\* that window, and a later one, 10 seconds after the five, is admitted
C3_Witness ==
    \E r1, r2 \in AllSlots :
        LET h == HistoryOf(CidOf(r1), "scan")
            t1 == slot[r1].current_time
            t2 == slot[r2].current_time
        IN  /\ Rejected(r1) /\ EpOf(r1) = "scan"
            /\ slot[r1].message = BurstMessage(10)
            /\ slot[r2].pc = "call_next" /\ EpOf(r2) = "scan"
            /\ CidOf(r1) = CidOf(r2)
            /\ Len(h) = 6
            /\ \A i \in 1..5 : h[i][1] > t1 - 10 /\ h[i][1] <= t1 /\ h[i][1] <= t2 - 10
            /\ h[6][1] = t2

\* the limits a refused request had reached, by the history at its call time
Reached(r) ==
    LET h == HistoryOf(CidOf(r), EpOf(r))
        t == slot[r].current_time
        config == RATE_LIMITS[EpOf(r)]
    IN  [burst  |-> CountIn(h, t - config.burst_window, t) >= config.burst_limit,
         minute |-> CountIn(h, t - ONE_MINUTE, t) >= config.requests_per_minute,
         hour   |-> CountIn(h, t - ONE_HOUR, t) >= config.requests_per_hour]

\* C4: the reason of a refusal is that of the first limit reached in the order
\* burst, minute, hour
C4_FirstViolationWins ==
    \A r \in AllSlots :
        Rejected(r) =>
            /\ Reached(r).burst => slot[r].error = BurstMessage(RATE_LIMITS[EpOf(r)].burst_window)
            /\ (~Reached(r).burst /\ Reached(r).minute) => slot[r].error = MinuteMessage
            /\ slot[r].error = HourMessage =>
                   (~Reached(r).burst /\ ~Reached(r).minute /\ Reached(r).hour)
            /\ slot[r].error \in {BurstMessage(RATE_LIMITS[EpOf(r)].burst_window),
                                  MinuteMessage, HourMessage}

\* a request is refused with the burst reason while the hourly limit is reached too
C4_Witness ==
    \E r \in AllSlots :
        /\ Rejected(r)
        /\ Reached(r).burst /\ Reached(r).hour
        /\ slot[r].error = BurstMessage(RATE_LIMITS[EpOf(r)].burst_window)

\* C5: a refusal records nothing (no list changes); an admission appends
\* exactly one <<current_time, endpoint_type>> to the list of its client
C5_RejectedNotRecorded ==
    [][\A r \in AllSlots :
          /\ (slot[r].pc = "check" /\ slot'[r].pc = "done") =>
                 /\ slot'[r].error # None
                 /\ requests' = requests
                 /\ admitted' = admitted
          /\ (slot[r].pc = "check" /\ slot'[r].pc = "record") =>
                 \A c \in ClientIds : Lookup(requests', c) = Lookup(requests, c)
          /\ (slot[r].pc = "record" /\ slot'[r].pc = "call_next") =>
                 /\ Lookup(requests', CidOf(r)) =
                        Append(Lookup(requests, CidOf(r)), <<slot[r].current_time, EpOf(r)>>)
                 /\ \A c \in ClientIds \ {CidOf(r)} :
                        Lookup(requests', c) = Lookup(requests, c)]_vars

\* a request has been refused and the list of its client holds the admitted
\* requests only
C5_Witness ==
    \E r \in AllSlots :
        /\ Rejected(r)
        /\ Len(Lookup(requests, CidOf(r))) = RATE_LIMITS[EpOf(r)].burst_limit
        /\ Lookup(requests, CidOf(r)) = Lookup(admitted, CidOf(r))

\* a coroutine whose check_rate_limit call has returned
Returned(r) == slot[r].pc \in {"call_next", "done"} /\ slot[r].current_time >= 0

\* C6 as stated: after check_rate_limit returns, the list of the client holds
\* no entry older than 3600 seconds at the call time
C6_NoEntryOlderThanHour ==
    \A r \in AllSlots :
        Returned(r) =>
            \A i \in 1..Len(Lookup(requests, CidOf(r))) :
                slot[r].current_time - Lookup(requests, CidOf(r))[i][1] <= ONE_HOUR

\* C6 amended: after check_rate_limit returns, the list of the client holds no
\* entry older than 3600 + 300 seconds at the call time (entries are evicted
\* by the sweep, which runs once 300 seconds have passed since the last one)
C6_NoEntryOlderThanHourAndSweep ==
    \A r \in AllSlots :
        Returned(r) =>
            \A i \in 1..Len(Lookup(requests, CidOf(r))) :
                slot[r].current_time - Lookup(requests, CidOf(r))[i][1]
                    < ONE_HOUR + cleanup_interval

\* a call has returned and the list of its client still holds an entry older
\* than an hour
C6_Witness ==
    \E r \in AllSlots :
        /\ Returned(r)
        /\ \E i \in 1..Len(Lookup(requests, CidOf(r))) :
               slot[r].current_time - Lookup(requests, CidOf(r))[i][1] > ONE_HOUR

\* the decision for a request of class ep at time t, from the recorded
\* requests of one client and one class alone
Verdict(h, ep, t) ==
    LET config == RATE_LIMITS[ep]
    IN  IF CountIn(h, t - config.burst_window, t) >= config.burst_limit
        THEN BurstMessage(config.burst_window)
        ELSE IF CountIn(h, t - ONE_MINUTE, t) >= config.requests_per_minute
        THEN MinuteMessage
        ELSE IF CountIn(h, t - ONE_HOUR, t) >= config.requests_per_hour
        THEN HourMessage
        ELSE None

\* C7: whether a request is admitted, and the reason if not, depends only on
\* the requests recorded earlier for the same client and the same class
C7_DecisionPerClientAndClass ==
    \A cid \in ClientIds, ep \in EndpointTypes :
        Decide(Lookup(requests, cid), ep, now) = Verdict(HistoryOf(cid, ep), ep, now)

\* one client is at the limit of one class and not of another class in which
\* it has recorded requests, while another client has recorded requests too
C7_Witness ==
    \E cid \in ClientIds, other \in ClientIds :
        /\ cid # other
        /\ Decide(Lookup(requests, cid), "community", now) # None
        /\ Decide(Lookup(requests, cid), "scan", now) = None
        /\ Len(HistoryOf(cid, "scan")) > 0
        /\ Len(Lookup(requests, other)) > 0
        /\ Decide(Lookup(requests, other), "community", now) = None

\* C8 as stated: requests from one connecting address are counted in one
\* bucket whatever their headers, and no key of the dictionary is an address
C8_BucketOfConnectingAddress ==
    /\ \A r1, r2 \in AllSlots :
           (/\ slot[r1].pc # "idle" /\ slot[r2].pc # "idle"
            /\ ReqOf(r1).client_host = ReqOf(r2).client_host) =>
               CidOf(r1) = CidOf(r2)
    /\ DOMAIN requests \subseteq 0..(HASH_MODULUS - 1)

\* C9: a refused request is answered 429 with the reason and Retry-After 60
\* and is never passed downstream; an admitted one is passed downstream once
C9_RejectedAnswered429 ==
    \A r \in AllSlots :
        /\ Rejected(r) =>
               /\ slot[r].status = STATUS_RATE_LIMITED
               /\ slot[r].message = slot[r].error
               /\ slot[r].message # None
               /\ slot[r].retry_after = 60
               /\ slot[r].passed = 0
        /\ (slot[r].pc = "done" /\ slot[r].error = None) =>
               slot[r].passed = 1 /\ slot[r].status # STATUS_RATE_LIMITED
        /\ slot[r].pc = "call_next" => slot[r].passed = 1
        /\ InCheck(r) => slot[r].passed = 0

\* one request has been refused and answered while another of the same bucket,
\* admitted, has been answered by the application
C9_Witness ==
    \E r1, r2 \in AllSlots :
        /\ Rejected(r1) /\ slot[r1].status = STATUS_RATE_LIMITED /\ slot[r1].passed = 0
        /\ slot[r2].pc = "done" /\ slot[r2].error = None /\ slot[r2].current_time >= 0
        /\ slot[r2].passed = 1
        /\ CidOf(r1) = CidOf(r2)

(***************************************************************************)
(* Properties of the scan results                                          *)
(***************************************************************************)
\* C10 as stated: in every scan result is_safe holds exactly when
\* risk_score < 30, and the label is the Low label below 30, the Medium label
\* from 30 to 69, and the High label from 70 on
C10_LabelFollowsTiers ==
    (scan.pc = "returned" /\ scan.result.status = 200) =>
        LET res == scan.result
        IN  /\ res.is_safe <=> res.risk_score < 30
            /\ res.risk_score < 30 => res.label = LABEL_LOW
            /\ (res.risk_score >= 30 /\ res.risk_score < 70) => res.label = LABEL_MEDIUM
            /\ res.risk_score >= 70 => res.label = LABEL_HIGH

\* a scan endpoint has returned
ScanReturned ==
    scan.pc = "returned" /\ scan.kind \in {"url", "text", "screenshot", "audio"}

\* the classifier's answer carries no usable probability: nothing, a notice
\* that the model is loading, a list with no item labelled malicious (URL),
\* or an answer that is not labels with scores (text, screenshot, audio)
NoUsableProbability ==
    IF scan.kind = "url"
    THEN \/ scan.ml_result.shape \in {"none", "loading"}
         \/ /\ scan.ml_result.shape \in {"list", "nested"}
            /\ \A i \in 1..Len(scan.ml_result.items) :
                   scan.ml_result.items[i].label # "malicious"
    ELSE scan.ml_result.shape # "zero_shot"

\* the content is one that the endpoint refuses before it analyses anything
ContentRefused ==
    CASE scan.kind = "url"  -> Strip(scan.content) = <<>>
      [] scan.kind = "text" -> Len(Strip(scan.content)) < 10
      [] OTHER              -> scan.content = <<>>

\* the content as the endpoint analyses it
ContentAnalysed ==
    CASE scan.kind = "url" ->
             IF StartsWith(Strip(scan.content), HTTP_PREFIX)
                \/ StartsWith(Strip(scan.content), HTTPS_PREFIX)
             THEN Strip(scan.content) ELSE HTTPS_PREFIX \o Strip(scan.content)
      [] scan.kind = "text" -> Strip(scan.content)
      [] OTHER -> scan.content

\* C13: when the classifier gives no usable probability, every scan endpoint
\* answers with a scan result whose risk score is the fusion of a model
\* probability of 0 with the heuristic score, round(40 * heuristic_score);
\* an error is answered only for a content that the endpoint refuses as such
C13_ClassifierUnavailableIsNeutral ==
    (ScanReturned /\ NoUsableProbability) =>
        /\ scan.result.status # 200 => ContentRefused
        /\ scan.result.status = 200 =>
               scan.result.risk_score = PyRound(40 * scan.heuristic_score, 100)

C13_Witness ==
    /\ ScanReturned /\ scan.kind = "screenshot" /\ scan.ml_result = NoResult
    /\ scan.heuristic_score = 50
    /\ scan.result.status = 200 /\ scan.result.risk_score = 20

\* t is s[:n] for some n
IsPrefixOf(t, s) == Len(t) <= Len(s) /\ t = SubSeq(s, 1, Len(t))

\* C14 as stated: for every scan kind the input text that is returned and
\* the one that is handed to storage are the output of redact_pii for the
\* submitted content (for a screenshot or audio, its first characters)
C14_StoredAndReturnedRedacted ==
    (ScanReturned /\ scan.result.status = 200) =>
        /\ IsPrefixOf(scan.result.input_text, redact_pii(ContentAnalysed).text)
        /\ scan.stored.saved =>
               IsPrefixOf(scan.stored.input_text, redact_pii(ContentAnalysed).text)

(***************************************************************************)
(* Properties of the risk score                                            *)
(***************************************************************************)
\* the call of compute_composite_score has returned
Fused == scan.pc = "returned" /\ scan.kind = "fuse"

\* the call used the default weights, by omission or spelled out
WithDefaultWeights == scan.weights = NoWeights \/ scan.weights = DefaultWeights

\* C11: with the default weights the score is an integer of 0..100, is 0 for
\* (0, 0) and 100 for (1, 1), and does not decrease when the model score or
\* the heuristic score increases
C11_FusionMonotoneInRange ==
    (Fused /\ WithDefaultWeights) =>
        /\ scan.result \in 0..100
        /\ (scan.model_score = 0 /\ scan.heuristic_score = 0) => scan.result = 0
        /\ (scan.model_score = 100 /\ scan.heuristic_score = 100) => scan.result = 100
        /\ \A m \in FuseGrid :
               m >= scan.model_score =>
                   compute_composite_score(m, scan.heuristic_score, scan.weights)
                       >= scan.result
        /\ \A h \in FuseGrid :
               h >= scan.heuristic_score =>
                   compute_composite_score(scan.model_score, h, scan.weights)
                       >= scan.result

C11_Witness ==
    /\ Fused /\ scan.weights = NoWeights
    /\ scan.model_score = 100 /\ scan.heuristic_score = 100 /\ scan.result = 100

\* C12: a weight configuration that does not sum to 1.0 is never used to
\* compute a score, and no computed score lies outside 0..100
C12_WeightsSumToOne ==
    Fused =>
        /\ (scan.weights # NoWeights =>
                scan.weights.model + scan.weights.heuristic = 100)
        /\ scan.result \in 0..100

(***************************************************************************)
(* Properties of the attack pattern detector                               *)
(***************************************************************************)
\* parse_url_breakdown and detect_attack_patterns have returned
Detected == scan.kind = "detect" /\ scan.pc = "returned"

HasTag(tags, tag) == \E k \in 1..Len(tags) : tags[k] = tag

HasKey(tags, key) == \E k \in 1..Len(tags) : tags[k].key = key

\* C15, as stated: for a URL whose host is google.paymentverify.xyz the
\* detector returns brand_impersonation with brand "google", and
\* suspicious_tld
C15_PaymentverifyIsBrandImpersonation ==
    (Detected /\ scan.breakdown.full_host = Host_brand_subdomain) =>
        /\ HasTag(scan.result, Tag("brand_impersonation", Brand_google))
        /\ HasTag(scan.result, Tag("suspicious_tld", NoBrand))

\* C15, amended: for a URL whose host is google.paymentverify.xyz the
\* detector returns subdomain_brand with brand "google", and suspicious_tld,
\* and no brand_impersonation: "google" is in the subdomain and not in the
\* domain, which is the first test of rule 2
C15_PaymentverifyIsSubdomainBrand ==
    (Detected /\ scan.breakdown.full_host = Host_brand_subdomain) =>
        /\ HasTag(scan.result, Tag("subdomain_brand", Brand_google))
        /\ HasTag(scan.result, Tag("suspicious_tld", NoBrand))
        /\ ~HasKey(scan.result, "brand_impersonation")

C15_Witness ==
    /\ Detected
    /\ scan.url = HTTP_PREFIX \o Host_brand_subdomain
    /\ scan.breakdown.full_host = Host_brand_subdomain
    /\ scan.breakdown.subdomain = Brand_google
    /\ HasTag(scan.result, Tag("subdomain_brand", Brand_google))
    /\ HasTag(scan.result, Tag("suspicious_tld", NoBrand))

\* the place of a tag's rule in the order of the rules
RuleRank(key) ==
    CASE key = "double_tld" -> 1
      [] key \in {"subdomain_brand", "brand_impersonation"} -> 2
      [] key = "excessive_hyphens" -> 3
      [] key = "excessive_dots" -> 4
      [] key = "ip_address" -> 5
      [] key = "suspicious_tld" -> 6
      [] key = "url_too_long" -> 7
      [] key = "encoded_chars" -> 8
      [] key = "punycode" -> 9
      [] key = "port_number" -> 10
      [] key = "no_https" -> 11

\* the test of a rule other than the brand rule, on the URL and its breakdown
RuleTest(key, url, breakdown) ==
    CASE key = "double_tld" ->
            Cardinality({ext \in tld_extensions :
                \E k \in 1..Len(Split(Lower(breakdown.full_host), ".")) :
                    Split(Lower(breakdown.full_host), ".")[k] = Tail(ext)}) >= 2
      [] key = "excessive_hyphens" -> Count(Lower(breakdown.full_host), "-") >= 3
      [] key = "excessive_dots" -> Count(Lower(breakdown.full_host), ".") >= 4
      [] key = "ip_address" -> breakdown.is_ip
      [] key = "suspicious_tld" ->
            (<<".">> \o Lower(breakdown.tld)) \in SUSPICIOUS_TLDS
      [] key = "url_too_long" -> Len(url) > 100
      [] key = "encoded_chars" ->
            \E i \in 1..(Len(url) - 2) :
                url[i] = "%" /\ url[i + 1] \in HexDigits /\ url[i + 2] \in HexDigits
      [] key = "punycode" -> Contains(Lower(breakdown.full_host), XN_PREFIX)
      [] key = "port_number" ->
            breakdown.port \notin {<<>>, <<"8", "0">>, <<"4", "4", "3">>}
      [] key = "no_https" -> ~StartsWith(Lower(url), HTTPS_PREFIX)

OtherRules ==
    {"double_tld", "excessive_hyphens", "excessive_dots", "ip_address",
     "suspicious_tld", "url_too_long", "encoded_chars", "punycode",
     "port_number", "no_https"}

\* the brands of KNOWN_BRANDS that one of the two tests of rule 2 accepts
MatchingBrands(breakdown) ==
    {k \in 1..Len(KNOWN_BRANDS) :
        \/ BrandInSubdomain(KNOWN_BRANDS[k], breakdown)
        \/ BrandOutsideRegisteredDomain(KNOWN_BRANDS[k], breakdown)}

BrandTagsOf(tags) == {k \in 1..Len(tags) : RuleRank(tags[k].key) = 2}

\* C16: the tags of detect_attack_patterns are in the order of the rules,
\* each key at most once; every rule other than the brand rule has its tag
\* exactly when its own test holds, whatever the other rules do; at most
\* one of subdomain_brand and brand_impersonation is there, it carries the
\* first brand of KNOWN_BRANDS that matches, and no other tag has a brand
C16_TagsInRuleOrder ==
    Detected =>
        /\ \A j, k \in 1..Len(scan.result) :
              j < k => RuleRank(scan.result[j].key) < RuleRank(scan.result[k].key)
        /\ \A key \in OtherRules :
              HasKey(scan.result, key) <=> RuleTest(key, scan.url, scan.breakdown)
        /\ Cardinality(BrandTagsOf(scan.result)) <= 1
        /\ (BrandTagsOf(scan.result) = {}) <=> (MatchingBrands(scan.breakdown) = {})
        /\ \A k \in 1..Len(scan.result) :
              IF k \in BrandTagsOf(scan.result)
              THEN scan.result[k].brand =
                       KNOWN_BRANDS[Least(MatchingBrands(scan.breakdown))]
              ELSE scan.result[k].brand = NoBrand

\* a host with two brands in its subdomain, in a URL on which four other
\* rules fire
C16_Witness ==
    /\ Detected
    /\ scan.breakdown.full_host = Host_two_brands
    /\ Cardinality(MatchingBrands(scan.breakdown)) = 2
    /\ [k \in 1..Len(scan.result) |-> scan.result[k].key] =
           <<"subdomain_brand", "suspicious_tld", "encoded_chars",
             "port_number", "no_https">>
    /\ scan.result[1].brand = Brand_google

\* the labels of a host that are one of the extensions com, net, org, edu,
\* gov, co
ExtensionLabels(hostname) ==
    {k \in 1..Len(Split(hostname, ".")) :
        \E ext \in tld_extensions : Split(hostname, ".")[k] = Tail(ext)}

\* C17: a host with more than one label that is an extension (com, net,
\* org, edu, gov, co) gets double_tld, also when the extension is the same
\* one twice, as in google.com.com
C17_DoubleTldForRepeatedExtension ==
    (Detected /\ Cardinality(ExtensionLabels(Lower(scan.breakdown.full_host))) > 1)
        => HasKey(scan.result, "double_tld")

(***************************************************************************)
(* Properties of the explainer                                             *)
(***************************************************************************)
\* the functions that turn tags into texts have returned, called on a list
\* of tags or from get_full_threat_analysis
Explained == scan.kind \in {"explain", "analysis"} /\ scan.pc = "returned"

\* the tags that the explainer functions were given
ExplainedTags ==
    IF scan.kind = "explain" THEN scan.attack_patterns
    ELSE detect_attack_patterns(scan.url, parse_url_breakdown(scan.url))

\* the locale whose table serves a lang
TableOf(lang) == IF lang \in {"en", "hi", "mr"} THEN lang ELSE "en"

\* the brand to show: that of the first tag that carries one, capitalized
ShownBrand(tags) ==
    LET branded == {k \in 1..Len(tags) : tags[k].brand # NoBrand}
    IN  IF branded = {} THEN A_LEGITIMATE_WEBSITE
        ELSE Capitalize(tags[Least(branded)].brand)

\* C18: the explanation follows the risk tier alone: the malicious template
\* with the brand from 70 on, the suspicious template from 30 to 69, and the
\* safe template below 30, for every list of tags and every locale
C18_ExplanationFollowsTiers ==
    Explained =>
        scan.result.explanation =
            IF scan.risk_score >= 70
            THEN Rendered(TRANSLATIONS[TableOf(scan.lang)].explanation_malicious,
                          ShownBrand(ExplainedTags))
            ELSE IF scan.risk_score >= 30
            THEN Rendered(TRANSLATIONS[TableOf(scan.lang)].explanation_suspicious,
                          NoBrand)
            ELSE Rendered(TRANSLATIONS[TableOf(scan.lang)].explanation_safe, NoBrand)

\* the tags of a list that have a tip of their own
TagsWithTip(tags) == {k \in 1..Len(tags) : tags[k].key \in DOMAIN tip_mapping}

\* the tip of the first tag that has one
FirstMappedTip(tags, lang) ==
    TRANSLATIONS[TableOf(lang)][tip_mapping[tags[Least(TagsWithTip(tags))].key]]

\* C19, as stated: the safety tip is the tip of the first tag that has one,
\* and the verify-before-clicking tip (tip_verify) whenever no tag has one,
\* be the list empty or not
C19_TipOfFirstMappedTagElseVerify ==
    Explained =>
        scan.result.safety_tip =
            IF TagsWithTip(ExplainedTags) # {}
            THEN FirstMappedTip(ExplainedTags, scan.lang)
            ELSE TRANSLATIONS[TableOf(scan.lang)].tip_verify

\* C19, amended: the safety tip is the tip of the first tag that has one;
\* for an empty list it is the verify-before-clicking tip (tip_verify), and
\* for a list that is not empty and has no tag with a tip it is the
\* go-to-the-official-website tip (tip_general)
C19_TipOfFirstMappedTagElseGeneral ==
    Explained =>
        scan.result.safety_tip =
            IF TagsWithTip(ExplainedTags) # {}
            THEN FirstMappedTip(ExplainedTags, scan.lang)
            ELSE IF Len(ExplainedTags) = 0
            THEN TRANSLATIONS[TableOf(scan.lang)].tip_verify
            ELSE TRANSLATIONS[TableOf(scan.lang)].tip_general

\* a list of two tags without a tip of their own
C19_Witness ==
    /\ Explained
    /\ scan.kind = "explain"
    /\ scan.attack_patterns =
           <<Tag("excessive_hyphens", NoBrand), Tag("suspicious_tld", NoBrand)>>
    /\ scan.lang = "en"
    /\ scan.result.safety_tip = TRANSLATIONS_en.tip_general
    /\ scan.result.safety_tip # TRANSLATIONS_en.tip_verify

\* what the four functions return for a list of tags, a score and a lang
ExplainResult(tags, risk_score, lang) ==
    [attack_patterns |-> get_attack_pattern_names(tags, lang),
     reasons         |-> generate_reasons(tags, lang),
     explanation     |-> generate_explanation(tags, risk_score, lang),
     safety_tip      |-> generate_safety_tip(tags, lang)]

\* the texts of a result, without the URL breakdown
TextsOf(result) ==
    [attack_patterns |-> result.attack_patterns, reasons |-> result.reasons,
     explanation |-> result.explanation, safety_tip |-> result.safety_tip]

\* the tables with one key taken out of the table of one locale
TablesWithout(lang, key) ==
    [TRANSLATIONS EXCEPT
        ![lang] = [k \in (DOMAIN TRANSLATIONS[lang]) \ {key} |->
                       TRANSLATIONS[lang][k]]]

\* every text there is in the table of a locale
TextsOfTable(lang) ==
    {TRANSLATIONS[lang][key] : key \in DOMAIN TRANSLATIONS[lang]}

\* C20: for a lang without a table the names, reasons, explanation and tip
\* are those for en; a key that the table of a supported locale lacks is
\* answered from the en table; and every lookup returns a text of the
\* tables (an unknown key gives no name and no reason rather than an error)
C20_LocaleFallsBackToEn ==
    Explained =>
        /\ scan.lang \notin DOMAIN TRANSLATIONS =>
              TextsOf(scan.result) =
                  ExplainResult(ExplainedTags, scan.risk_score, "en")
        /\ scan.lang \in (DOMAIN TRANSLATIONS) \ {"en"} =>
              \A key \in DOMAIN TRANSLATIONS_en :
                  /\ key \notin DOMAIN TablesWithout(scan.lang, key)[scan.lang]
                  /\ GetTextFrom(TablesWithout(scan.lang, key), scan.lang, key, "")
                         = TRANSLATIONS_en[key]
        /\ \A k \in 1..Len(scan.result.attack_patterns) :
              scan.result.attack_patterns[k] \in TextsOfTable(TableOf(scan.lang))
        /\ \A k \in 1..Len(scan.result.reasons) :
              scan.result.reasons[k] \in TextsOfTable(TableOf(scan.lang))
        /\ scan.result.explanation.text \in TextsOfTable(TableOf(scan.lang))
        /\ scan.result.safety_tip \in TextsOfTable(TableOf(scan.lang))

\* fr: the English texts, with the brand put into the explanation
C20_Witness ==
    /\ Explained
    /\ scan.kind = "explain"
    /\ scan.lang = "fr"
    /\ scan.risk_score = 70
    /\ scan.attack_patterns =
           <<Tag("subdomain_brand", Brand_google), Tag("unknown_rule", NoBrand)>>
    /\ scan.result.reasons = <<TRANSLATIONS_en.reason_subdomain_brand>>
    /\ scan.result.attack_patterns = <<TRANSLATIONS_en.subdomain_brand>>
    /\ scan.result.explanation =
           Rendered(TRANSLATIONS_en.explanation_malicious, <<"G", "o", "o", "g", "l", "e">>)
    /\ scan.result.safety_tip = TRANSLATIONS_en.tip_brand_subdomain

\* no text is twice in a list
NoDuplicates(texts) ==
    \A j, k \in 1..Len(texts) : j # k => texts[j] # texts[k]

\* C21: the reasons hold no reason string twice, also when the list of tags
\* repeats a tag, and they come in the order of the tags
C21_ReasonsWithoutDuplicates ==
    Explained =>
        /\ NoDuplicates(scan.result.reasons)
        /\ \A j, k \in 1..Len(scan.result.reasons) :
              j < k =>
                  \E a, b \in 1..Len(ExplainedTags) :
                      /\ a < b
                      /\ ExplainedTags[a].key \in DOMAIN reason_keys
                      /\ ExplainedTags[b].key \in DOMAIN reason_keys
                      /\ scan.result.reasons[j] =
                             TRANSLATIONS[TableOf(scan.lang)][reason_keys[ExplainedTags[a].key]]
                      /\ scan.result.reasons[k] =
                             TRANSLATIONS[TableOf(scan.lang)][reason_keys[ExplainedTags[b].key]]

(***************************************************************************)
(* Properties of the URL and text analyzers                                *)
(***************************************************************************)
UrlAnalyzed == scan.kind = "analyze_url" /\ scan.pc = "returned"

\* the weight that goes with each finding of analyze_url_structure
FindingWeights ==
    [flag \in {"Missing HTTPS - connection not secure",
               "Uses IP address instead of domain name",
               "Uses suspicious top-level domain",
               "Excessive subdomains - possible domain spoofing",
               "Unusually long URL",
               "Contains authentication-related keywords in path",
               "Excessive URL encoding - possible obfuscation"} |->
        CASE flag = "Missing HTTPS - connection not secure" -> 15
          [] flag = "Uses IP address instead of domain name" -> 25
          [] flag = "Uses suspicious top-level domain" -> 20
          [] flag = "Excessive subdomains - possible domain spoofing" -> 15
          [] OTHER -> 10]

RECURSIVE SumOfFlags(_)
SumOfFlags(flags) ==
    IF Len(flags) = 0 THEN 0
    ELSE FindingWeights[flags[1]] + SumOfFlags(Tail(flags))

Capped(sum) == IF sum > 100 THEN 100 ELSE sum

\* the checks of a URL by its host: no https scheme, a host that is an IPv4
\* literal, a host that ends with a suspicious TLD, a host of more than 4
\* labels, more than 100 characters, an auth keyword in the path, more than
\* 3 percent signs
ChecksByHost(url, host, path) ==
      (IF ~has_https(url) THEN 15 ELSE 0)
    + (IF contains_ip(host) THEN 25 ELSE 0)
    + (IF \E tld \in heuristics_SUSPICIOUS_TLDS : EndsWith(host, tld)
       THEN 20 ELSE 0)
    + (IF Len(Split(host, ".")) > 4 THEN 15 ELSE 0)
    + (IF Len(url) > 100 THEN 10 ELSE 0)
    + (IF \E x \in AUTH_KEYWORDS : Contains(Lower(path), x) THEN 10 ELSE 0)
    + (IF Count(url, "%") > 3 THEN 10 ELSE 0)

\* C22: for a URL that parses, the score of analyze_url_structure is the
\* sum, capped at 1.0, of the weights of the checks that match the URL:
\* 0.15 no https, 0.25 host an IP literal, 0.20 host with a suspicious TLD,
\* 0.15 more than 4 host labels, 0.10 longer than 100, 0.10 auth keyword in
\* the path, 0.10 more than 3 percent signs; and the score is in [0,1]
C22_UrlScoreIsCappedSumOfChecks ==
    UrlAnalyzed =>
        /\ scan.result.score \in 0..100
        /\ ~UrlparseRaises(scan.url) =>
              scan.result.score =
                  Capped(ChecksByHost(scan.url, Hostname(urlparse(scan.url)),
                                      urlparse(scan.url).path))

\* the score is the capped sum of the weights of the findings that are
\* returned, the findings come in the order of the checks, and the score is
\* in [0,1]
UrlScoreIsCappedSumOfFindings ==
    UrlAnalyzed =>
        /\ scan.result.score \in 0..100
        /\ scan.result = analyze_url_structure(scan.url)
        /\ ~UrlparseRaises(scan.url) =>
              /\ scan.result.score = Capped(SumOfFlags(scan.result.flags))
              /\ scan.result.flags \in Seq(DOMAIN FindingWeights)

TextAnalyzed == scan.kind = "analyze_text" /\ scan.pc = "returned"

\* how many of the listed keywords occur in the text, whatever the case
MatchCount(text) ==
    Cardinality({k \in 1..Len(SUSPICIOUS_KEYWORDS) :
                    \E i \in 1..Len(text) :
                        LitAtIgnoreCase(text, i, SUSPICIOUS_KEYWORDS[k])})

\* the other signals of a text: capitals, punctuation, phone number,
\* currency amount, link
OtherSignals(text) ==
      (IF Len(caps_words(text)) > 3 THEN 15 ELSE 0)
    + (IF Count(text, "!") > 3 \/ Count(text, "?") > 5 THEN 10 ELSE 0)
    + (IF HasPhoneShape(text) THEN 5 ELSE 0)
    + (IF HasCurrency(text) THEN 10 ELSE 0)
    + (IF HasLink(text) THEN 10 ELSE 0)

\* C23: the keyword signal of analyze_text_content is min(0.1 * match_count,
\* 0.5), match_count being the number of listed keywords that occur in the
\* text whatever the case; with one more keyword phrase and the other
\* signals unchanged the score is not lower, and from 5 matches on it is the
\* same
C23_KeywordSignalIsCappedAndMonotone ==
    TextAnalyzed =>
        /\ scan.result.score =
              Capped((IF MatchCount(scan.text) > 5 THEN 50
                      ELSE 10 * MatchCount(scan.text)) + OtherSignals(scan.text))
        /\ \A n \in 0..(Len(KeywordPhrases) - 1),
              signals \in SUBSET (1..Len(SignalPhrases)) :
              scan.text = ComposedText(n, signals) =>
                  /\ OtherSignals(ComposedText(n + 1, signals))
                         = OtherSignals(scan.text)
                  /\ MatchCount(ComposedText(n + 1, signals))
                         > MatchCount(scan.text)
                  /\ analyze_text_content(ComposedText(n + 1, signals)).score
                         >= scan.result.score
                  /\ MatchCount(scan.text) >= 5 =>
                         analyze_text_content(ComposedText(n + 1, signals)).score
                             = scan.result.score

\* a text with seven keywords and a phone number: 0.5 for the keywords
C23_Witness ==
    /\ TextAnalyzed
    /\ scan.text = ComposedText(6, {3})
    /\ MatchCount(scan.text) = 7
    /\ scan.result.score = 55
    /\ analyze_text_content(ComposedText(7, {3})).score = 55

(***************************************************************************)
(* Properties of the redactor                                              *)
(***************************************************************************)
Redacted == scan.kind = "redact" /\ scan.pc = "returned"

\* re.findall from position i on: the matched substrings, taken from the
\* left without overlap
RECURSIVE FindAll(_, _, _)
FindAll(pattern, s, i) ==
    LET starts == {j \in i..Len(s) : MatchEnd(pattern, s, j) > 0}
    IN  IF starts = {} THEN {}
        ELSE {SubSeq(s, Least(starts), MatchEnd(pattern, s, Least(starts)))}
             \cup FindAll(pattern, s, MatchEnd(pattern, s, Least(starts)) + 1)

\* the pattern matches somewhere in the text
Matches(pattern, s) == \E j \in 1..Len(s) : MatchEnd(pattern, s, j) > 0

\* C24: whatever a pattern of the redactor matches in the input, the output
\* contains none of these substrings; and when the input has a match of the
\* phone, email or Aadhaar pattern, the output has no match of that pattern
C24_OutputHasNoMatchedSubstring ==
    Redacted =>
        /\ \A pattern \in {PiiPatterns[k] : k \in 1..Len(PiiPatterns)} :
              \A matched \in FindAll(pattern, scan.text, 1) :
                  ~Contains(scan.result.text, matched)
        /\ \A pattern \in {"phone", "email", "aadhaar"} :
              Matches(pattern, scan.text) => ~Matches(pattern, scan.result.text)

\* the first half of C24 alone
OutputHasNoMatchedSubstring ==
    Redacted =>
        \A pattern \in {PiiPatterns[k] : k \in 1..Len(PiiPatterns)} :
            \A matched \in FindAll(pattern, scan.text, 1) :
                ~Contains(scan.result.text, matched)

\* the second half of C24 alone
OutputHasNoMatchOfClass ==
    Redacted =>
        \A pattern \in {"phone", "email", "aadhaar"} :
            Matches(pattern, scan.text) => ~Matches(pattern, scan.result.text)

\* C25: each class of PII is replaced by its own placeholder: a text with a
\* 10-digit phone number gives an output with [PHONE_REDACTED] and a count
\* of at least 1, a text with an email address one with [EMAIL_REDACTED],
\* and a text with a 12-digit Aadhaar number in groups of four
\* (1234 5678 9012) one with [AADHAAR_REDACTED]
C25_EachClassHasItsPlaceholder ==
    Redacted =>
        /\ Contains(scan.text, Pii_phone) =>
              Contains(scan.result.text, PHONE_REDACTED) /\ scan.result.count >= 1
        /\ Contains(scan.text, Pii_email) =>
              Contains(scan.result.text, EMAIL_REDACTED)
        /\ Contains(scan.text, Pii_aadhaar) =>
              Contains(scan.result.text, AADHAAR_REDACTED)

\* the phone and email parts of C25 alone
PhoneAndEmailHaveTheirPlaceholder ==
    Redacted =>
        /\ Contains(scan.text, Pii_phone) =>
              Contains(scan.result.text, PHONE_REDACTED) /\ scan.result.count >= 1
        /\ Contains(scan.text, Pii_email) =>
              Contains(scan.result.text, EMAIL_REDACTED)

\* the Aadhaar and the card pattern never get their turn: the phone pattern
\* has taken the digits before
NoAadhaarOrCardPlaceholder ==
    Redacted =>
        /\ ~Contains(scan.result.text, AADHAAR_REDACTED)
        /\ ~Contains(scan.result.text, CARD_REDACTED)

\* how often a placeholder stands in a text
Occurrences(s, lit) == Cardinality({i \in 1..Len(s) : LitAt(s, i, lit)})

RECURSIVE Placeholders(_, _)
Placeholders(s, k) ==
    IF k > Len(PiiPatterns) THEN 0
    ELSE Occurrences(s, PiiReplacement(PiiPatterns[k])) + Placeholders(s, k + 1)

\* C26: the input is returned unchanged exactly when the count is 0, a text
\* with no PII is returned unchanged with count 0, and the count is the
\* number of replacements made over all patterns (the placeholders that the
\* output has)
C26_UnchangedExactlyWhenCountIsZero ==
    Redacted =>
        /\ (scan.result.text = scan.text) <=> (scan.result.count = 0)
        /\ (\A k \in 1..Len(PiiPatterns) : ~Matches(PiiPatterns[k], scan.text))
              => scan.result = [text |-> scan.text, count |-> 0]
        /\ scan.result.count = Placeholders(scan.result.text, 1)

\* a text with two replacements by two patterns
C26_Witness ==
    /\ Redacted
    /\ scan.text = Text_two_addresses
    /\ scan.result.count = 2
    /\ Contains(scan.result.text, EMAIL_REDACTED)
    /\ Contains(scan.result.text, ACCOUNT_REDACTED)

\* the safe text of the tests comes back as it is
SafeTextUnchanged ==
    /\ Redacted
    /\ scan.text = Text_safe
    /\ scan.result = [text |-> Text_safe, count |-> 0]

(***************************************************************************)
(* Properties of the sweep and of the limits of the classes                *)
(***************************************************************************)
\* a step in which _cleanup_old_entries goes past its early return
SweepStep == last_cleanup' # last_cleanup

\* every stored list is kept or appended to
NothingRemoved ==
    \A c \in DOMAIN requests :
        /\ c \in DOMAIN requests'
        /\ Len(requests'[c]) >= Len(requests[c])
        /\ SubSeq(requests'[c], 1, Len(requests[c])) = requests[c]

\* the entries of a list that are less than an hour old
FromLastHour(list, t) ==
    LET Young(e) == t - e[1] < ONE_HOUR
    IN  SelectSeq(list, Young)

\* the dictionary without the entries an hour old or older and without the
\* clients that have no other entries
WithoutOld(reqs, t) ==
    [c \in {d \in DOMAIN reqs : FromLastHour(reqs[d], t) # <<>>} |->
        FromLastHour(reqs[c], t)]

NoEmptyList == \A c \in DOMAIN requests : requests[c] # <<>>

\* C27: the sweep runs only as a part of check_rate_limit and only when 300
\* seconds have passed since the sweep before; it removes from every list
\* the timestamps an hour old or older, and nothing else, and deletes the
\* clients whose lists it has emptied, and no other step removes anything;
\* when a check_rate_limit call has returned no client has an empty list
C27_SweepOncePer300AndExact ==
    [][/\ SweepStep =>
              /\ \E r \in AllSlots : slot[r].pc = "cleanup" /\ slot'[r].pc = "check"
              /\ now - last_cleanup >= cleanup_interval
              /\ last_cleanup' = now
              /\ requests' = WithoutOld(requests, now)
       /\ ~SweepStep => NothingRemoved
       /\ \A c \in DOMAIN requests :
              FromLastHour(requests[c], now) # <<>> =>
                  /\ c \in DOMAIN requests'
                  /\ FromLastHour(requests'[c], now)
                         = FromLastHour(requests[c], now)
                     \/ \E e \in {<<now, ep>> : ep \in EndpointTypes} :
                            FromLastHour(requests'[c], now)
                                = Append(FromLastHour(requests[c], now), e)
       /\ ((\E r \in AllSlots : slot[r].pc \in {"cleanup", "check", "record"})
           /\ running' = 0) => NoEmptyList'
      ]_vars

\* no client has an empty list while no call of check_rate_limit is running
NoEmptyListBetweenCalls == running = 0 => NoEmptyList

\* after a sweep: a client whose entries were all old is gone, and another
\* has lost an old entry and kept a young one
C27_Witness ==
    /\ running = 0
    /\ last_cleanup > cleanup_interval
    /\ \E c \in DOMAIN admitted : c \notin DOMAIN requests
    /\ \E c \in DOMAIN requests :
          /\ Len(requests[c]) < Len(admitted[c])
          /\ requests[c] # <<>>
          /\ \A i \in 1..Len(requests[c]) : now - requests[c][i][1] < ONE_HOUR

\* the classes with a burst window of 60 seconds and a burst limit below
\* the limit per minute
MinuteWindowClasses == {"community", "auth"}

\* C28: a request of the community or the auth class is admitted or refused
\* with the burst or the hourly reason, never with the per-minute reason,
\* and for these classes no 60 seconds hold more recorded requests than
\* burst_limit (3 and 5), which is below requests_per_minute (5 and 10)
C28_MinuteLimitUnreachable ==
    /\ \A r \in AllSlots :
          (Rejected(r) /\ EpOf(r) \in MinuteWindowClasses) =>
              slot[r].error \in {BurstMessage(ONE_MINUTE), HourMessage}
    /\ \A cid \in DOMAIN admitted, ep \in MinuteWindowClasses :
          /\ WindowHolds(HistoryOf(cid, ep), ONE_MINUTE, RATE_LIMITS[ep].burst_limit)
          /\ CountIn(HistoryOf(cid, ep), now - ONE_MINUTE, now)
                 < RATE_LIMITS[ep].requests_per_minute

\* an auth request is refused for the burst with 5 requests recorded in the
\* 60 seconds before it, at more than one time
C28_Witness ==
    \E r \in AllSlots :
        /\ Rejected(r) /\ EpOf(r) = "auth"
        /\ slot[r].error = BurstMessage(ONE_MINUTE)
        /\ CountIn(HistoryOf(CidOf(r), "auth"), slot[r].current_time - ONE_MINUTE,
                   slot[r].current_time) = 5
        /\ HistoryOf(CidOf(r), "auth")[5][1] > HistoryOf(CidOf(r), "auth")[1][1]

\* a community request is refused for the hour
CommunityRefusedForTheHour ==
    \E r \in AllSlots :
        /\ Rejected(r) /\ EpOf(r) = "community"
        /\ slot[r].error = HourMessage

(***************************************************************************)
(* Properties of a scan without a classifier                               *)
(***************************************************************************)
\* C29: when the classifier gives no probability the risk score of a scan
\* is round(40 * heuristic_score), which is at most 40, whatever the
\* heuristic score: the scan never reaches the High tier (risk_score >= 70)
\* and a URL scan is never labelled High Risk
C29_HeuristicOnlyNeverHigh ==
    (ScanReturned /\ NoUsableProbability /\ scan.result.status = 200) =>
        /\ scan.result.risk_score = PyRound(40 * scan.heuristic_score, 100)
        /\ scan.result.risk_score <= 40
        /\ scan.result.risk_score < 70
        /\ scan.kind = "url" => scan.result.label # LABEL_HIGH

\* a URL scan without a classifier and with the highest heuristic score:
\* risk score 40, Medium Risk
C29_Witness ==
    /\ ScanReturned /\ scan.kind = "url" /\ scan.ml_result = NoResult
    /\ scan.heuristic_score = 100
    /\ scan.result.status = 200
    /\ scan.result.risk_score = 40
    /\ scan.result.label = LABEL_MEDIUM

(***************************************************************************)
(* Properties of the brand rule on the breakdown of a parsed URL           *)
(***************************************************************************)
\* parse_url_breakdown has not taken its except branch
ParsedWithoutError(url) == ~UrlparseRaises(url) /\ ~PortRaises(urlparse(url))

Brands == {KNOWN_BRANDS[k] : k \in 1..Len(KNOWN_BRANDS)}

\* C30: for the breakdown of a URL that parse_url_breakdown has parsed
\* without an error the detector never returns brand_impersonation: a brand
\* that is in the host and not in the registered domain is in the subdomain
\* and not in the domain, which is the test of subdomain_brand; and for a
\* host that is an IP literal it returns ip_address with no brand tag and
\* no suspicious_tld
C30_NoBrandImpersonationWhenParsed ==
    (Detected /\ ParsedWithoutError(scan.url)) =>
        /\ ~HasKey(scan.result, "brand_impersonation")
        /\ \A brand \in Brands :
              BrandOutsideRegisteredDomain(brand, scan.breakdown)
                  => BrandInSubdomain(brand, scan.breakdown)
        /\ scan.breakdown.is_ip =>
              /\ HasKey(scan.result, "ip_address")
              /\ ~HasKey(scan.result, "subdomain_brand")
              /\ ~HasKey(scan.result, "suspicious_tld")

\* a brand that is in the host and not in the registered domain, on a URL
\* with a port: the tag is subdomain_brand
C30_Witness ==
    /\ Detected /\ ParsedWithoutError(scan.url)
    /\ Port(urlparse(scan.url)) = 8080
    /\ BrandOutsideRegisteredDomain(Brand_paypal, scan.breakdown)
    /\ HasTag(scan.result, Tag("subdomain_brand", Brand_paypal))

\* an IP literal as the host: ip_address
IpHostDetected ==
    /\ Detected /\ ParsedWithoutError(scan.url)
    /\ scan.breakdown.is_ip
    /\ HasKey(scan.result, "ip_address")

\* the except branch of parse_url_breakdown: the whole URL is the host and
\* the registered domain, and a brand written in capitals is in the one,
\* which is lowered, and not in the other
BrandImpersonationAfterParseError ==
    /\ Detected /\ ~ParsedWithoutError(scan.url)
    /\ HasKey(scan.result, "brand_impersonation")

====
